---- MODULE Spec2Model ----
(***************************************************************************)
(* A model of supermail: the error taxonomy (normalizeError), the Facade   *)
(* (SuperMail), and the three adapters (GmailProvider, MicrosoftProvider,  *)
(* ImapProvider) seen as the backend requests each operation issues and    *)
(* the result or classified error it hands back.                           *)
(*                                                                         *)
(* Seven specifications share the module:                                  *)
(*   SpecNorm     normalizeError applied to a raw failure and a backend tag *)
(*   SpecColor    the two colour conversions applied to a colour string    *)
(*   Spec         the Facade and the adapters, one action per operation    *)
(*   SpecMailbox  an adapter against a backend that keeps its messages     *)
(*   SpecOverlap  two calls on one ImapProvider that are not serialized    *)
(*   SpecLabels   two label changes on one message of a MicrosoftProvider  *)
(*   SpecAddress  the conversion of a sender or recipient to EmailAddress  *)
(***************************************************************************)
EXTENDS Integers, Sequences, FiniteSets, TLC

VARIABLES
    nRaw,       \* SpecNorm: the raw failure given to normalizeError
    nTag,       \* SpecNorm: the provider argument
    nOut,       \* SpecNorm: what the call produced
    nPc,        \* SpecNorm: "ready" before the call, "done" after
    cAdapter,   \* SpecColor: the adapter whose conversion is applied
    cIn,        \* SpecColor: the colour string given by the caller
    cOut,       \* SpecColor: the colour the conversion returned
    cPc,        \* SpecColor: "ready" before the call, "done" after
    facade,     \* Spec: the SuperMail instance and its provider field
    connected,  \* Spec: the connected field of the ImapProvider instance
    selected,   \* Spec: the mailbox its session has selected, "" for none
    last,       \* Spec: the call that has just settled, for the caller to read
    mAdapter,   \* SpecMailbox: the adapter constructed, "" for none yet
    mSession,   \* SpecMailbox: connected and selected of an ImapProvider
    mbox,       \* SpecMailbox: the messages the backend holds, by id
    mLast,      \* SpecMailbox: the call that has just settled
    mMarked,    \* SpecMailbox: ids a batch has marked read, none unread since
    mArch,      \* SpecMailbox: the message archived last, its labels before
    rPc,        \* SpecOverlap: where each of the two calls stands
    rConnected, \* SpecOverlap: the connected field of the ImapProvider
    rSelected,  \* SpecOverlap: the mailbox the session has selected, and by whom
    rQueue,     \* SpecOverlap: the requests the session has not yet served
    rCmd,       \* SpecOverlap: the mailbox command the session served last
    rCalls,     \* SpecOverlap: the number of calls made so far
    lbCats,     \* SpecLabels: the categories the backend holds for the message
    lbPc,       \* SpecLabels: where each of the two calls stands
    aAdapter,   \* SpecAddress: the adapter whose conversion is applied
    aIn,        \* SpecAddress: the value the backend gave
    aOut,       \* SpecAddress: the addresses the conversion returned
    aPc         \* SpecAddress: "ready" before the conversion, "done" after

normVars == <<nRaw, nTag, nOut, nPc>>
colorVars == <<cAdapter, cIn, cOut, cPc>>
mainVars == <<facade, connected, selected, last>>
boxVars == <<mAdapter, mSession, mbox, mLast, mMarked, mArch>>
raceVars == <<rPc, rConnected, rSelected, rQueue, rCmd, rCalls>>
labelVars == <<lbCats, lbPc>>
addrVars == <<aAdapter, aIn, aOut, aPc>>
vars == <<normVars, colorVars, mainVars, boxVars, raceVars, labelVars, addrVars>>

-----------------------------------------------------------------------------
(* JavaScript values.  Every value is a record of one shape so that two    *)
(* values can always be compared: t is the type, n the number, s the text  *)
(* of a string that is only ever compared, cs the characters of a string   *)
(* that the code parses.                                                   *)

Undef == [t |-> "undefined", n |-> 0, s |-> "", cs |-> <<>>]
NaN == [t |-> "nan", n |-> 0, s |-> "", cs |-> <<>>]
Num(i) == [t |-> "number", n |-> i, s |-> "", cs |-> <<>>]
Str(x) == [t |-> "string", n |-> 0, s |-> x, cs |-> <<>>]
Chars(c) == [t |-> "string", n |-> 0, s |-> "", cs |-> c]

\* const x = v; F(x): v is computed once
Let(v, F(_)) == CHOOSE y \in {F(x) : x \in {v}} : TRUE

\* JavaScript truthiness: undefined, NaN, 0 and "" are falsy
Truthy(v) ==
    CASE v.t = "undefined" -> FALSE
      [] v.t = "nan" -> FALSE
      [] v.t = "number" -> v.n # 0
      [] OTHER -> v.s # "" \/ v.cs # <<>>

\* a || b
JsOr(a, b) == IF Truthy(a) THEN a ELSE b

\* v === i for a number literal i, v === x for a string literal x
IsNum(v, i) == v.t = "number" /\ v.n = i
IsStr(v, x) == v.t = "string" /\ v.s = x /\ v.cs = <<>>

\* `${v}`
ToText(v) ==
    CASE v.t = "undefined" -> "undefined"
      [] v.t = "nan" -> "NaN"
      [] v.t = "number" -> ToString(v.n)
      [] OTHER -> v.s

DecDigits == <<"0", "1", "2", "3", "4", "5", "6", "7", "8", "9">>
HexDigits == <<"0", "1", "2", "3", "4", "5", "6", "7", "8", "9",
               "a", "b", "c", "d", "e", "f">>
WhiteSpace == {" ", "\t"}

\* the value of character c as a digit of the radix whose digits are ds, or -1
DigitValue(c, ds) ==
    IF \E i \in 1..Len(ds) : ds[i] = c
    THEN (CHOOSE i \in 1..Len(ds) : ds[i] = c) - 1
    ELSE -1

UpperLetters == <<"A", "B", "C", "D", "E", "F", "G", "H", "I", "J", "K", "L", "M",
                  "N", "O", "P", "Q", "R", "S", "T", "U", "V", "W", "X", "Y", "Z">>
LowerLetters == <<"a", "b", "c", "d", "e", "f", "g", "h", "i", "j", "k", "l", "m",
                  "n", "o", "p", "q", "r", "s", "t", "u", "v", "w", "x", "y", "z">>

LowerChar(c) ==
    IF \E i \in 1..26 : UpperLetters[i] = c
    THEN LowerLetters[CHOOSE i \in 1..26 : UpperLetters[i] = c]
    ELSE c

\* String.prototype.toLowerCase on a character sequence
ToLowerCase(c) == [i \in 1..Len(c) |-> LowerChar(c[i])]

RECURSIVE SkipSpace(_)
SkipSpace(c) ==
    IF c # <<>> /\ Head(c) \in WhiteSpace THEN SkipSpace(Tail(c)) ELSE c

\* the longest prefix of c made of digits of ds, read as a number:
\* [any |-> a digit was read, val |-> its value]
RECURSIVE ReadDigits(_, _, _, _)
ReadDigits(c, ds, acc, any) ==
    IF c = <<>> \/ DigitValue(LowerChar(Head(c)), ds) < 0
    THEN [any |-> any, val |-> acc]
    ELSE ReadDigits(Tail(c), ds,
                    acc * Len(ds) + DigitValue(LowerChar(Head(c)), ds), TRUE)

\* the sign of a number text, the text after its sign, and whether that
\* starts with 0x or 0X
IsNegative(a) == a # <<>> /\ Head(a) = "-"
Unsigned(a) == IF a # <<>> /\ Head(a) \in {"-", "+"} THEN Tail(a) ELSE a
HasHexPrefix(b) == Len(b) >= 2 /\ b[1] = "0" /\ b[2] \in {"x", "X"}

\* the number read, negated after a minus sign; NaN when no digit was read
Signed(neg, r) == IF r.any THEN Num(IF neg THEN 0 - r.val ELSE r.val) ELSE NaN

\* parseInt(string) without a radix: leading blanks, a sign, an optional
\* 0x prefix selecting radix 16, then digits up to the first non-digit
ParseIntChars(c) ==
    Signed(IsNegative(SkipSpace(c)),
           IF HasHexPrefix(Unsigned(SkipSpace(c)))
           THEN ReadDigits(Tail(Tail(Unsigned(SkipSpace(c)))), HexDigits, 0, FALSE)
           ELSE ReadDigits(Unsigned(SkipSpace(c)), DecDigits, 0, FALSE))

\* parseInt(string, 16) as hexToRgb uses it on a two-character slice
ParseHex(c) ==
    Signed(IsNegative(SkipSpace(c)),
           ReadDigits(IF HasHexPrefix(Unsigned(SkipSpace(c)))
                      THEN Tail(Tail(Unsigned(SkipSpace(c))))
                      ELSE Unsigned(SkipSpace(c)),
                      HexDigits, 0, FALSE))

\* parseInt(v): the argument is first converted to a string
ParseInt(v) ==
    CASE v.t = "number" -> v
      [] v.t = "string" -> ParseIntChars(v.cs)
      [] OTHER -> NaN

-----------------------------------------------------------------------------
(* Raw failures: what a backend client throws.  k is the JavaScript type   *)
(* of the thrown value; the other fields are the properties normalizeError *)
(* reads (error.code, error.statusCode, error.response?.status,            *)
(* error.response?.headers?.['retry-after'], error.headers?.['retry-after'],*)
(* error.body?.error?.code, error.message), Undef when absent.             *)

RawObject(code, statusCode, respStatus, respRetry, hdrRetry, bodyCode, msg) ==
    [k |-> "object", code |-> code, statusCode |-> statusCode,
     respStatus |-> respStatus, respRetryAfter |-> respRetry,
     hdrRetryAfter |-> hdrRetry, bodyErrorCode |-> bodyCode, message |-> msg]

RawPrimitive(k) ==
    [k |-> k, code |-> Undef, statusCode |-> Undef, respStatus |-> Undef,
     respRetryAfter |-> Undef, hdrRetryAfter |-> Undef,
     bodyErrorCode |-> Undef, message |-> Undef]

RawNull == RawPrimitive("null")
RawUndefined == RawPrimitive("undefined")
RawString == RawPrimitive("string")

\* new Error(msg): an object with a message and nothing else
PlainError(msg) == RawObject(Undef, Undef, Undef, Undef, Undef, Undef, Str(msg))

-----------------------------------------------------------------------------
(* Error taxonomy                                                          *)

ErrorCode ==
    {"AUTH_FAILED", "TOKEN_EXPIRED", "INVALID_CREDENTIALS",
     "RATE_LIMIT_EXCEEDED", "QUOTA_EXCEEDED", "NOT_FOUND", "INVALID_EMAIL_ID",
     "SEND_FAILED", "OPERATION_FAILED", "NETWORK_ERROR", "TIMEOUT",
     "INVALID_INPUT", "MISSING_REQUIRED_FIELD", "UNKNOWN_ERROR"}

\* A thrown error as the caller sees it.  classified is TRUE for a
\* SuperMailError (name, code, message, provider, retryAfter, originalError)
\* and FALSE for any other thrown value, whose code is then "".
SuperMailError(code, message, provider, originalError) ==
    [classified |-> TRUE, name |-> "SuperMailError", code |-> code,
     message |-> message, provider |-> provider, retryAfter |-> Undef,
     originalError |-> originalError]

AuthenticationError(message, provider, originalError) ==
    [SuperMailError("AUTH_FAILED", message, provider, originalError)
        EXCEPT !.name = "AuthenticationError"]

RateLimitError(message, provider, retryAfter, originalError) ==
    [SuperMailError("RATE_LIMIT_EXCEEDED", message, provider, originalError)
        EXCEPT !.name = "RateLimitError", !.retryAfter = retryAfter]

NotFoundError(message, provider, originalError) ==
    [SuperMailError("NOT_FOUND", message, provider, originalError)
        EXCEPT !.name = "NotFoundError"]

\* a thrown value that is not a SuperMailError
Unclassified(name, message, raw) ==
    [classified |-> FALSE, name |-> name, code |-> "", message |-> message,
     provider |-> "", retryAfter |-> Undef, originalError |-> raw]

\* the TypeError of reading a property of null or undefined
TypeErrorThrown(raw) ==
    Unclassified("TypeError", <<"Cannot read properties of ", raw.k>>, raw)

NoError == Unclassified("", <<>>, RawUndefined)

\* A SuperMailError seen as a thrown object by a later normalizeError: its
\* code property is the ErrorCode string and it has a message; it has no
\* statusCode, response, headers or body.
AsRaw(e) ==
    IF e.classified
    THEN RawObject(Str(e.code), Undef, Undef, Undef, Undef, Undef,
                   Str(IF e.message = <<>> THEN "" ELSE e.message[1]))
    ELSE e.originalError

\* normalizeError(error, provider): [threw |-> it threw instead of returning,
\* err |-> the SuperMailError returned, or the value thrown]
Returned(e) == [threw |-> FALSE, err |-> e]
Threw(e) == [threw |-> TRUE, err |-> e]

\* the Gmail rules on statusCode and the retry-after header: <<the error
\* returned>>, or <<>> when none applies
GmailRules(statusCode, retryAfter, error, provider) ==
        CASE IsNum(statusCode, 401) ->
               <<AuthenticationError(
                   <<"Gmail authentication failed. Token may be expired or invalid.">>,
                   provider, error)>>
          [] IsNum(statusCode, 403) ->
               <<SuperMailError("QUOTA_EXCEEDED",
                   <<"Gmail quota exceeded or insufficient permissions.">>,
                   provider, error)>>
          [] IsNum(statusCode, 404) ->
               <<NotFoundError(<<"Email not found in Gmail.">>, provider, error)>>
          [] IsNum(statusCode, 429) ->
               <<RateLimitError(<<"Gmail rate limit exceeded.">>, provider,
                   IF Truthy(retryAfter) THEN ParseInt(retryAfter) ELSE Undef,
                   error)>>
          [] OTHER -> <<>>

normalizeErrorGmail(error, provider) ==
    GmailRules(JsOr(error.code, error.respStatus), error.respRetryAfter,
               error, provider)

\* the Microsoft rules on statusCode, errorCode and the retry-after header
MicrosoftRules(statusCode, errorCode, retryAfter, error, provider) ==
        CASE IsNum(statusCode, 401) \/ IsStr(errorCode, "InvalidAuthenticationToken") ->
               <<AuthenticationError(
                   <<"Microsoft authentication failed. Token may be expired or invalid.">>,
                   provider, error)>>
          [] IsNum(statusCode, 403) \/ IsStr(errorCode, "Forbidden") ->
               <<SuperMailError("QUOTA_EXCEEDED",
                   <<"Microsoft insufficient permissions or quota exceeded.">>,
                   provider, error)>>
          [] IsNum(statusCode, 404) \/ IsStr(errorCode, "ResourceNotFound") ->
               <<NotFoundError(<<"Email not found in Microsoft.">>, provider, error)>>
          [] IsNum(statusCode, 429) \/ IsStr(errorCode, "TooManyRequests") ->
               <<RateLimitError(<<"Microsoft rate limit exceeded.">>, provider,
                   IF Truthy(retryAfter) THEN ParseInt(retryAfter) ELSE Undef,
                   error)>>
          [] OTHER -> <<>>

normalizeErrorMicrosoft(error, provider) ==
    MicrosoftRules(JsOr(error.statusCode, error.code),
                   JsOr(error.code, error.bodyErrorCode),
                   error.hdrRetryAfter, error, provider)

\* the two tail rules: connectivity failures, then the default
normalizeErrorCommon(error, provider) ==
    IF IsStr(error.code, "ECONNREFUSED") \/ IsStr(error.code, "ENOTFOUND")
       \/ IsStr(error.code, "ETIMEDOUT")
    THEN SuperMailError("NETWORK_ERROR",
             <<"Network error: ", ToText(error.message)>>, provider, error)
    ELSE SuperMailError("UNKNOWN_ERROR",
             IF Truthy(error.message) THEN <<ToText(error.message)>>
             ELSE <<"An unknown error occurred">>,
             provider, error)

\* the first of the blocks that returns: g and m are <<the error>> the
\* Gmail and the Microsoft block return, or <<>>
FirstReturn(g, m, common) ==
    IF g # <<>> THEN Returned(g[1])
    ELSE IF m # <<>> THEN Returned(m[1])
    ELSE Returned(common)

normalizeError(error, provider) ==
    IF error.k \in {"null", "undefined"}
    THEN Threw(TypeErrorThrown(error))
    ELSE FirstReturn(
             IF provider = "gmail" THEN normalizeErrorGmail(error, provider) ELSE <<>>,
             IF provider = "microsoft" THEN normalizeErrorMicrosoft(error, provider)
             ELSE <<>>,
             normalizeErrorCommon(error, provider))

-----------------------------------------------------------------------------
(* Label colours.  A colour string is a sequence of characters.            *)

\* the string '#' followed by six characters
Hex6(a, b, c, d, e, f) == <<"#", a, b, c, d, e, f>>

\* String.prototype.startsWith
StartsWith(c, prefix) ==
    Len(c) >= Len(prefix) /\ SubSeq(c, 1, Len(prefix)) = prefix

\* String.prototype.slice(from, to) with 0 <= from <= to
Slice(c, from, to) ==
    SubSeq(c, from + 1, IF to > Len(c) THEN Len(c) ELSE to)

\* hexToRgb: three parseInt(.., 16) of two-character slices
hexToRgb(hex) ==
    [r |-> ParseHex(Slice(hex, 1, 3)),
     g |-> ParseHex(Slice(hex, 3, 5)),
     b |-> ParseHex(Slice(hex, 5, 7))]

\* colorDistance squared, or -1 for NaN.  The code compares
\* Math.sqrt of this sum; on integers up to 3 * 255^2 the square root is
\* strictly increasing in double precision, so a < b is decided alike.
colorDistance(c1, c2) ==
    IF \E v \in {c1.r, c1.g, c1.b, c2.r, c2.g, c2.b} : v.t # "number"
    THEN -1
    ELSE (c1.r.n - c2.r.n) * (c1.r.n - c2.r.n)
         + (c1.g.n - c2.g.n) * (c1.g.n - c2.g.n)
         + (c1.b.n - c2.b.n) * (c1.b.n - c2.b.n)

\* the comparison reversed: the farthest key wins
DistanceGreater(distance, minDistance) ==
    /\ distance # -1
    /\ minDistance = -2 \/ distance > minDistance

\* distance < minDistance, where minDistance starts at Infinity (-2 here)
\* and a NaN distance (-1) compares false
DistanceLess(distance, minDistance) ==
    /\ distance # -1
    /\ minDistance = -2 \/ distance < minDistance

\* property names a plain object inherits from Object.prototype that
\* survive toLowerCase: colorPalette[name] is then a truthy non-colour
ConstructorName == <<"c", "o", "n", "s", "t", "r", "u", "c", "t", "o", "r">>
ProtoName == <<"_", "_", "p", "r", "o", "t", "o", "_", "_">>
InheritedKeys == {ConstructorName, ProtoName}
InheritedMember == <<"[", "i", "n", "h", "e", "r", "i", "t", "e", "d", "]">>

GmailColor(bg, text) == [backgroundColor |-> bg, textColor |-> text]

GmailRed == Hex6("f", "b", "4", "c", "2", "f")
GmailPeach == Hex6("f", "f", "c", "8", "a", "f")
GmailYellow == Hex6("f", "a", "d", "1", "6", "5")
GmailGreen == Hex6("1", "6", "a", "7", "6", "5")
GmailLime == Hex6("7", "b", "d", "1", "4", "8")
GmailBlue == Hex6("4", "9", "8", "6", "e", "7")
GmailSky == Hex6("a", "4", "b", "d", "f", "c")
GmailPurple == Hex6("b", "9", "9", "a", "f", "f")
GmailPink == Hex6("f", "6", "9", "1", "b", "3")
GmailGray == Hex6("c", "a", "b", "d", "b", "f")
White == Hex6("f", "f", "f", "f", "f", "f")
DarkText == Hex6("5", "9", "4", "c", "0", "5")

\* colorPalette of convertToGmailColor, in insertion order
colorPalette ==
    << [key |-> Hex6("f", "f", "0", "0", "0", "0"), val |-> GmailColor(GmailRed, White)],
       [key |-> GmailRed, val |-> GmailColor(GmailRed, White)],
       [key |-> Hex6("f", "f", "8", "8", "0", "0"), val |-> GmailColor(GmailPeach, White)],
       [key |-> GmailPeach, val |-> GmailColor(GmailPeach, DarkText)],
       [key |-> Hex6("f", "f", "f", "f", "0", "0"), val |-> GmailColor(GmailYellow, DarkText)],
       [key |-> GmailYellow, val |-> GmailColor(GmailYellow, DarkText)],
       [key |-> Hex6("0", "0", "f", "f", "0", "0"), val |-> GmailColor(GmailGreen, White)],
       [key |-> GmailGreen, val |-> GmailColor(GmailGreen, White)],
       [key |-> GmailLime, val |-> GmailColor(GmailLime, DarkText)],
       [key |-> Hex6("0", "0", "0", "0", "f", "f"), val |-> GmailColor(GmailBlue, White)],
       [key |-> GmailBlue, val |-> GmailColor(GmailBlue, White)],
       [key |-> GmailSky, val |-> GmailColor(GmailSky, DarkText)],
       [key |-> Hex6("8", "0", "0", "0", "8", "0"), val |-> GmailColor(GmailPurple, White)],
       [key |-> GmailPurple, val |-> GmailColor(GmailPurple, DarkText)],
       [key |-> Hex6("f", "f", "0", "0", "f", "f"), val |-> GmailColor(GmailPink, White)],
       [key |-> GmailPink, val |-> GmailColor(GmailPink, White)],
       [key |-> Hex6("8", "0", "8", "0", "8", "0"), val |-> GmailColor(GmailGray, DarkText)],
       [key |-> GmailGray, val |-> GmailColor(GmailGray, DarkText)] >>

\* the for-loop over Object.entries(table) from entry i on: closest is the
\* value kept so far, minDistance its distance
RECURSIVE ClosestEntry(_, _, _, _, _)
ClosestEntry(table, targetRgb, i, closest, minDistance) ==
    IF i > Len(table) THEN closest
    ELSE Let(colorDistance(targetRgb, hexToRgb(table[i].key)),
             LAMBDA distance :
               IF DistanceLess(distance, minDistance)
               THEN ClosestEntry(table, targetRgb, i + 1, table[i].val, distance)
               ELSE ClosestEntry(table, targetRgb, i + 1, closest, minDistance))

\* table[name], truthy or not
HasKey(table, name) == \E i \in 1..Len(table) : table[i].key = name
Lookup(table, name) == table[CHOOSE i \in 1..Len(table) : table[i].key = name].val

convertToGmailColor(hexColor) ==
    Let(ToLowerCase(hexColor),
        LAMBDA normalizedColor :
          IF HasKey(colorPalette, normalizedColor)
          THEN Lookup(colorPalette, normalizedColor)
          ELSE IF normalizedColor \in InheritedKeys
          THEN GmailColor(InheritedMember, InheritedMember)
          ELSE IF StartsWith(normalizedColor, <<"#">>) /\ Len(normalizedColor) = 7
          THEN ClosestEntry(colorPalette, hexToRgb(normalizedColor), 1,
                            GmailColor(GmailRed, White), -2)
          ELSE GmailColor(GmailRed, White))

PresetWord == <<"p", "r", "e", "s", "e", "t">>

\* 'preset' followed by the decimal digits of i, 0 <= i <= 99
Preset(i) ==
    IF i < 10 THEN Append(PresetWord, DecDigits[i + 1])
    ELSE PresetWord \o <<DecDigits[(i \div 10) + 1], DecDigits[(i % 10) + 1]>>

\* colorMap of convertColorToPreset, in insertion order
colorMap ==
    << [key |-> Hex6("f", "f", "0", "0", "0", "0"), val |-> Preset(0)],
       [key |-> Hex6("f", "f", "4", "5", "0", "0"), val |-> Preset(1)],
       [key |-> Hex6("8", "b", "4", "5", "1", "3"), val |-> Preset(2)],
       [key |-> Hex6("f", "f", "f", "f", "0", "0"), val |-> Preset(3)],
       [key |-> Hex6("0", "0", "8", "0", "0", "0"), val |-> Preset(4)],
       [key |-> Hex6("0", "0", "8", "0", "8", "0"), val |-> Preset(5)],
       [key |-> Hex6("8", "0", "8", "0", "0", "0"), val |-> Preset(6)],
       [key |-> Hex6("0", "0", "0", "0", "f", "f"), val |-> Preset(7)],
       [key |-> Hex6("8", "0", "0", "0", "8", "0"), val |-> Preset(8)],
       [key |-> Hex6("9", "b", "2", "d", "3", "0"), val |-> Preset(9)],
       [key |-> Hex6("5", "a", "7", "e", "9", "f"), val |-> Preset(10)],
       [key |-> Hex6("4", "8", "5", "c", "6", "9"), val |-> Preset(11)],
       [key |-> Hex6("8", "0", "8", "0", "8", "0"), val |-> Preset(12)],
       [key |-> Hex6("6", "9", "6", "9", "6", "9"), val |-> Preset(13)],
       [key |-> Hex6("0", "0", "0", "0", "0", "0"), val |-> Preset(14)],
       [key |-> Hex6("8", "b", "0", "0", "0", "0"), val |-> Preset(15)],
       [key |-> Hex6("f", "f", "8", "c", "0", "0"), val |-> Preset(16)],
       [key |-> Hex6("6", "5", "4", "3", "2", "1"), val |-> Preset(17)],
       [key |-> Hex6("9", "b", "8", "7", "0", "c"), val |-> Preset(18)],
       [key |-> Hex6("0", "0", "6", "4", "0", "0"), val |-> Preset(19)],
       [key |-> Hex6("0", "0", "5", "5", "5", "a"), val |-> Preset(20)],
       [key |-> Hex6("5", "b", "5", "e", "0", "a"), val |-> Preset(21)],
       [key |-> Hex6("0", "0", "0", "0", "8", "b"), val |-> Preset(22)],
       [key |-> Hex6("4", "b", "0", "0", "8", "2"), val |-> Preset(23)],
       [key |-> Hex6("6", "f", "2", "6", "3", "3"), val |-> Preset(24)] >>

\* convertColorToPreset(color); color is Undef when the argument is omitted
convertColorToPreset(color) ==
    IF ~Truthy(color) THEN Preset(0)
    ELSE IF StartsWith(color.cs, PresetWord) THEN color.cs
    ELSE Let(ToLowerCase(color.cs),
             LAMBDA normalizedColor :
               IF HasKey(colorMap, normalizedColor)
               THEN Lookup(colorMap, normalizedColor)
               ELSE IF normalizedColor \in InheritedKeys THEN InheritedMember
               ELSE IF StartsWith(normalizedColor, <<"#">>) /\ Len(normalizedColor) = 7
               THEN ClosestEntry(colorMap, hexToRgb(normalizedColor), 1, Preset(0), -2)
               ELSE Preset(0))

\* the closed palettes of the two backends
GmailPalette == {colorPalette[i].val.backgroundColor : i \in 1..Len(colorPalette)}
MicrosoftPalette == {colorMap[i].val : i \in 1..Len(colorMap)}

-----------------------------------------------------------------------------
(* SpecNorm: normalizeError on every raw failure of a bounded set          *)

ProviderTags == {"gmail", "microsoft", "imap"}

CodeValues ==
    {Undef, Num(401), Num(403), Num(404), Num(429), Num(500),
     Str("ECONNREFUSED"), Str("ENOTFOUND"), Str("ETIMEDOUT"),
     Str("InvalidAuthenticationToken"), Str("Forbidden"),
     Str("ResourceNotFound"), Str("TooManyRequests"), Str("AUTH_FAILED")}
StatusValues == {Undef, Num(401), Num(403), Num(404), Num(429)}
RetryValues == {Undef, Chars(<<"5">>), Chars(<<"0">>), Chars(<<"s", "o", "o", "n">>)}
BodyCodeValues == {Undef, Str("InvalidAuthenticationToken"), Str("TooManyRequests")}
MessageValues == {Undef, Str(""), Str("boom")}

RawObjects ==
    {RawObject(c, sc, rs, rr, hr, bc, m) :
        c \in CodeValues, sc \in StatusValues, rs \in {Undef, Num(401), Num(429)},
        rr \in RetryValues, hr \in RetryValues, bc \in BodyCodeValues,
        m \in MessageValues}

RawErrors == RawObjects \cup {RawNull, RawUndefined, RawString}

\* the variables of a specification that is not the one running
NormIdle ==
    /\ nRaw = RawUndefined
    /\ nTag = ""
    /\ nOut = Returned(NoError)
    /\ nPc = "idle"

ColorIdle ==
    /\ cAdapter = ""
    /\ cIn = <<>>
    /\ cOut = [color |-> <<>>, textColor |-> <<>>]
    /\ cPc = "idle"

\* the arguments of a call, one record for every operation
NoOptions == [subject |-> <<>>, hasHtml |-> FALSE, hasAttachments |-> FALSE]
NoList == [maxResults |-> 0, pageToken |-> "", labelIds |-> {}, query |-> "",
           unreadOnly |-> FALSE]
NoArgs ==
    [id |-> <<>>, ids |-> <<>>, operation |-> "", folderId |-> "",
     labelIds |-> {}, name |-> "", color |-> Undef, parentId |-> "",
     options |-> NoOptions, list |-> NoList]

NoFacade == [state |-> "none", type |-> "", provider |-> "", err |-> NoError]

\* what the backend answers with
NoEnv ==
    [faults |-> {}, pick |-> 1, listIds |-> <<>>, nextPageToken |-> "",
     totalCount |-> 0, subject |-> <<"S">>, threadId |-> "t1",
     labelIds |-> {"INBOX", "UNREAD"}, categories |-> {"Work"}, isRead |-> FALSE,
     newId |-> <<"9">>, newRef |-> "L9", labels |-> <<>>, folders |-> <<>>,
     uids |-> <<>>, fetched |-> TRUE, parse |-> "ok", parsedCount |-> 0]

NoCall ==
    [via |-> "", adapter |-> "", op |-> "", args |-> NoArgs, calls |-> <<>>,
     faults |-> {}, env |-> NoEnv, reqs |-> <<>>, st |-> "", err |-> NoError,
     val |-> [kind |-> "void", items |-> <<>>, nextPageToken |-> "",
              totalCount |-> -1],
     before |-> [connected |-> FALSE, selected |-> ""], started |-> <<>>]

MainIdle ==
    /\ facade = NoFacade
    /\ connected = FALSE
    /\ selected = ""
    /\ last = NoCall

\* no call made yet on the adapter of SpecMailbox
NoBoxCall ==
    [op |-> "", operation |-> "", ids |-> <<>>, faults |-> {}, reqs |-> <<>>,
     st |-> "", val |-> [kind |-> "void", items |-> <<>>, nextPageToken |-> "",
                         totalCount |-> -1],
     gone |-> {}]

BoxIdle ==
    /\ mAdapter = ""
    /\ mSession = [connected |-> FALSE, selected |-> ""]
    /\ mbox = <<>>
    /\ mLast = NoBoxCall
    /\ mMarked = {}
    /\ mArch = [id |-> <<>>, times |-> "never", labels |-> {}]

\* a call that has not been made, or has settled
NoActivation == [pc |-> "idle", op |-> "", box |-> "", cmds |-> <<>>]

NoSelection == [box |-> "", by |-> 0, op |-> ""]

NoCommand == [call |-> 0, op |-> "", ep |-> "", box |-> "", selected |-> NoSelection]

\* the two callers of SpecOverlap
OverlappingCalls == {1, 2}

RaceIdle ==
    /\ rPc = [i \in OverlappingCalls |-> NoActivation]
    /\ rConnected = FALSE
    /\ rSelected = NoSelection
    /\ rQueue = <<>>
    /\ rCmd = NoCommand
    /\ rCalls = 0

\* a label change that has not been started
\* (read: the categories its getEmail returned; before: those the message
\* had when its PATCH arrived; wrote: those its PATCH set)
NoLabelCall ==
    [pc |-> "idle", op |-> "", ids |-> {}, read |-> {}, names |-> {},
     before |-> {}, wrote |-> {}]

LabelIdle ==
    /\ lbCats = {}
    /\ lbPc = [i \in OverlappingCalls |-> NoLabelCall]

\* a value the backend gives for a sender or a recipient: the text of a
\* header (Gmail), or an object with an address and a name, either of
\* which may be missing (Graph, mailparser)
NoAddressInput == [k |-> "none", header |-> <<>>, address |-> Undef, name |-> Undef]

AddrIdle ==
    /\ aAdapter = ""
    /\ aIn = NoAddressInput
    /\ aOut = <<>>
    /\ aPc = "idle"

NormInit ==
    /\ nRaw \in RawErrors
    /\ nTag \in ProviderTags
    /\ nOut = Returned(NoError)
    /\ nPc = "ready"
    /\ ColorIdle
    /\ MainIdle
    /\ BoxIdle
    /\ RaceIdle
    /\ LabelIdle
    /\ AddrIdle

NormalizeCall ==
    /\ nPc = "ready"
    /\ nOut' = normalizeError(nRaw, nTag)
    /\ nPc' = "done"
    /\ UNCHANGED <<nRaw, nTag, colorVars, mainVars, boxVars, raceVars, labelVars, addrVars>>

NormNext == NormalizeCall

SpecNorm == NormInit /\ [][NormNext]_vars

-----------------------------------------------------------------------------
(* SpecColor: the colour conversions on a bounded set of colour strings    *)

ChannelValues ==
    {<<"0", "0">>, <<"4", "0">>, <<"8", "0">>, <<"8", "8">>, <<"c", "0">>,
     <<"f", "f">>}

GridColors ==
    {<<"#">> \o r \o g \o b : r \in ChannelValues, g \in ChannelValues,
                               b \in ChannelValues}

TableKeys ==
    {colorPalette[i].key : i \in 1..Len(colorPalette)}
        \cup {colorMap[i].key : i \in 1..Len(colorMap)}

OtherColors ==
    {Hex6("F", "F", "8", "8", "0", "0"), Hex6("F", "f", "0", "0", "0", "1"),
     Hex6("1", "2", "3", "4", "5", "6"), Hex6("A", "B", "C", "D", "E", "F"),
     Hex6("g", "g", "g", "g", "g", "g"), Hex6("1", "g", "0", "0", "0", "0"),
     <<"#", "f", "0", "0">>, <<"r", "e", "d">>, <<"f", "f", "0", "0", "0", "0", "0">>,
     Preset(3), Preset(99), Append(PresetWord, "X"),
     <<"P", "r", "e", "s", "e", "t", "1">>, ConstructorName, ProtoName}

ColorStrings == GridColors \cup TableKeys \cup OtherColors

ColorInit ==
    /\ cAdapter \in {"gmail", "microsoft"}
    /\ cIn \in ColorStrings
    /\ cOut = [color |-> <<>>, textColor |-> <<>>]
    /\ cPc = "ready"
    /\ NormIdle
    /\ MainIdle
    /\ BoxIdle
    /\ RaceIdle
    /\ LabelIdle
    /\ AddrIdle

GmailConvert ==
    /\ cPc = "ready"
    /\ cAdapter = "gmail"
    /\ LET c == convertToGmailColor(cIn)
       IN  cOut' = [color |-> c.backgroundColor, textColor |-> c.textColor]
    /\ cPc' = "done"
    /\ UNCHANGED <<cAdapter, cIn, normVars, mainVars, boxVars, raceVars, labelVars, addrVars>>

MicrosoftConvert ==
    /\ cPc = "ready"
    /\ cAdapter = "microsoft"
    /\ cOut' = [color |-> convertColorToPreset(Chars(cIn)), textColor |-> <<>>]
    /\ cPc' = "done"
    /\ UNCHANGED <<cAdapter, cIn, normVars, mainVars, boxVars, raceVars, labelVars, addrVars>>

ColorNext == GmailConvert \/ MicrosoftConvert

SpecColor == ColorInit /\ [][ColorNext]_vars

-----------------------------------------------------------------------------
(* Backend failures as the backends' clients report them.  The REST client *)
(* of the label-organized backend sets code and response.status to the     *)
(* HTTP status and keeps the headers under response; the REST client of    *)
(* the folder-native backend sets statusCode to the HTTP status, code to   *)
(* the service's error name, and keeps the headers on the error itself.    *)
(* The direct-protocol backend has no status of its own: a simulated       *)
(* status arrives in either shape.                                         *)

GmailFailure(status, retry, msg) ==
    RawObject(Num(status), Undef, Num(status), retry, Undef, Undef, msg)

GraphName(status) ==
    CASE status = 401 -> Str("InvalidAuthenticationToken")
      [] status = 403 -> Str("Forbidden")
      [] status = 404 -> Str("ResourceNotFound")
      [] status = 429 -> Str("TooManyRequests")
      [] OTHER -> Undef

GraphFailure(status, retry, msg) ==
    RawObject(GraphName(status), Num(status), Undef, Undef, retry, Undef, msg)

\* raw is the failure with which the backend named by tag reports status
HasStatus(tag, raw, status) ==
    \E r \in RetryValues, m \in MessageValues :
        CASE tag = "gmail" -> raw = GmailFailure(status, r, m)
          [] tag = "microsoft" -> raw = GraphFailure(status, r, m)
          [] OTHER -> raw \in {GmailFailure(status, r, m), GraphFailure(status, r, m)}

\* the retry-after header of such a failure
RetryHeader(raw) == JsOr(raw.respRetryAfter, raw.hdrRetryAfter)

IsConnectivity(raw) ==
    /\ raw.k = "object"
    /\ raw.code \in {Str("ECONNREFUSED"), Str("ENOTFOUND"), Str("ETIMEDOUT")}

-----------------------------------------------------------------------------
(* The adapters.  An operation runs against a context c (the requests it   *)
(* has issued so far, and the direct-protocol adapter's connected field    *)
(* and selected mailbox) and an environment e (which of its requests the   *)
(* backend fails, and the data the backend answers with).  It yields       *)
(* [c, st, err, val]: st is "ok" (resolved with val), "err" (rejected with *)
(* err) or "hang" (the promise never settles).                             *)

\* a backend request: endpoint, message id, uid, folder/label target,
\* labels or flags added and removed, colour, subject, thread, paging, the
\* kind of body, and the category list a PATCH sets
NoReq ==
    [ep |-> "", id |-> <<>>, uid |-> Undef, target |-> "", add |-> {},
     del |-> {}, color |-> <<>>, textColor |-> <<>>, subject |-> <<>>,
     threadId |-> "", maxResults |-> 0, pageToken |-> "", q |-> <<>>,
     body |-> "", categories |-> {}]

Req(ep) == [NoReq EXCEPT !.ep = ep]
ReqId(ep, id) == [NoReq EXCEPT !.ep = ep, !.id = id]

\* an entity of the unified data model: a message, a folder or a label
NoEntity ==
    [id |-> <<>>, ref |-> "", name |-> "", parentId |-> "", color |-> <<>>,
     type |-> "", subject |-> <<>>, threadId |-> "", labels |-> {},
     isRead |-> Undef]

NoVal == [kind |-> "void", items |-> <<>>, nextPageToken |-> "", totalCount |-> -1]
Val(kind, items) == [NoVal EXCEPT !.kind = kind, !.items = items]

Ok(c, val) == [c |-> c, st |-> "ok", err |-> NoError, val |-> val]
Rejected(c, e) == [c |-> c, st |-> "err", err |-> e, val |-> NoVal]
Hang(c) == [c |-> c, st |-> "hang", err |-> NoError, val |-> NoVal]

\* a raw backend failure thrown as it is
ThrownRaw(c, raw) ==
    Rejected(c, Unclassified("Error", <<ToText(raw.message)>>, raw))

\* throw new Error(msg)
ThrownError(c, msg) == ThrownRaw(c, PlainError(msg))

\* the failure with which the backend of an adapter answers a request:
\* status 0 is a refused connection
Failure(tag, status) ==
    IF status = 0
    THEN RawObject(Str("ECONNREFUSED"), Undef, Undef, Undef, Undef, Undef,
                   Str("connect refused"))
    ELSE CASE tag = "gmail" -> GmailFailure(status, Undef, Str("backend said no"))
           [] tag = "microsoft" -> GraphFailure(status, Undef, Str("backend said no"))
           [] OTHER -> RawObject(Num(status), Num(status), Num(status), Undef,
                                 Undef, Undef, Str("backend said no"))

\* the status with which the environment fails the n-th request, or -1
FaultAt(e, n) ==
    IF \E f \in e.faults : f[1] = n
    THEN (CHOOSE f \in e.faults : f[1] = n)[2]
    ELSE -1

\* issue a request: it is logged, and it throws the backend's failure if
\* the environment fails it
Request(c, e, tag, req) ==
    IF FaultAt(e, Len(c.reqs) + 1) >= 0
    THEN ThrownRaw([c EXCEPT !.reqs = Append(@, req)],
                   Failure(tag, FaultAt(e, Len(c.reqs) + 1)))
    ELSE Ok([c EXCEPT !.reqs = Append(@, req)], NoVal)

\* r, then F on its result if it resolved
Then(r, F(_)) == CHOOSE y \in {IF x.st = "ok" THEN F(x) ELSE x : x \in {r}} : TRUE

\* r, or F on it if it was rejected
Else(r, F(_)) == CHOOSE y \in {IF x.st = "err" THEN F(x) ELSE x : x \in {r}} : TRUE

\* try { r } catch (error) { throw normalizeError(error, tag) }
Catch(tag, r) ==
    Else(r, LAMBDA x : [x EXCEPT !.err = normalizeError(AsRaw(x.err), tag).err])

\* reject(normalizeError(err, tag)) in a callback: classified once, and
\* not seen by the catch of the function that returned the promise
CallbackRequest(c, e, tag, req) == Catch(tag, Request(c, e, tag, req))

\* Promise.all over the results rs of calls that were all started: it
\* rejects with the error of the call that failed first in time (the
\* pick-th of the failed calls in starting order, or the first of them when
\* fewer failed), hangs if none failed and one never settles, and resolves
\* otherwise
PromiseAll(c, rs, pick) ==
    IF \E i \in 1..Len(rs) : rs[i].st = "err"
    THEN Rejected(c, rs[CHOOSE i \in 1..Len(rs) :
                          /\ rs[i].st = "err"
                          /\ \/ Cardinality({j \in 1..i : rs[j].st = "err"}) = pick
                             \/ /\ Cardinality({j \in 1..Len(rs) : rs[j].st = "err"}) < pick
                                /\ \A j \in 1..(i - 1) : rs[j].st # "err"].err)
    ELSE IF \E i \in 1..Len(rs) : rs[i].st = "hang" THEN Hang(c)
    ELSE Ok(c, NoVal)

\* the context after the last of the calls rs, or c when there is none
LastContext(c, rs) == IF rs = <<>> THEN c ELSE rs[Len(rs)].c

\* how each of the calls rs settled, in the order they were started
Settled(rs) == [i \in 1..Len(rs) |-> [st |-> rs[i].st, err |-> rs[i].err]]

\* await Promise.all(promises) over the calls rs started from context c;
\* the context keeps how each started call settled
AwaitAll(c, rs, pick) ==
    Let(rs, LAMBDA x : PromiseAll([LastContext(c, x) EXCEPT !.started = Settled(x)],
                                  x, pick))

-----------------------------------------------------------------------------
(* GmailProvider                                                           *)

\* convertGmailMessage on the message the backend returns for id
GmailMessage(e, id) ==
    [NoEntity EXCEPT !.id = id, !.subject = e.subject, !.threadId = e.threadId,
                     !.labels = e.labelIds,
                     !.isRead = Str(IF "UNREAD" \in e.labelIds THEN "false" ELSE "true")]

\* the message synthesized from the options and the send response
SentMessage(e, subject) ==
    [NoEntity EXCEPT !.id = e.newId, !.subject = subject, !.threadId = e.threadId,
                     !.labels = e.labelIds]

GmailSendEmail(c, e, a) ==
    Catch("gmail",
      Then(Request(c, e, "gmail",
                   [Req("messages.send") EXCEPT !.subject = a.options.subject]),
           LAMBDA r : Ok(r.c, Val("message", <<SentMessage(e, a.options.subject)>>))))

GmailGetEmail(c, e, emailId) ==
    Catch("gmail",
      Then(Request(c, e, "gmail", ReqId("messages.get", emailId)),
           LAMBDA r : Ok(r.c, Val("message", <<GmailMessage(e, emailId)>>))))

\* buildQuery
GmailBuildQuery(options) ==
    (IF options.query # "" THEN <<options.query>> ELSE <<>>)
        \o (IF options.unreadOnly THEN <<"is:unread">> ELSE <<>>)

\* the loop of listEmails over the ids of the list response
RECURSIVE GmailGetEach(_, _, _, _)
GmailGetEach(c, e, ids, acc) ==
    IF ids = <<>> THEN Ok(c, Val("list", acc))
    ELSE Then(GmailGetEmail(c, e, Head(ids)),
              LAMBDA r : GmailGetEach(r.c, e, Tail(ids), acc \o r.val.items))

GmailListEmails(c, e, a) ==
    Catch("gmail",
      Then(Request(c, e, "gmail",
                   [Req("messages.list") EXCEPT
                      !.maxResults = IF a.list.maxResults # 0
                                     THEN a.list.maxResults ELSE 100,
                      !.pageToken = a.list.pageToken,
                      !.add = a.list.labelIds,
                      !.q = GmailBuildQuery(a.list)]),
           LAMBDA r :
             Then(GmailGetEach(r.c, e, e.listIds, <<>>),
                  LAMBDA g : Ok(g.c, [g.val EXCEPT !.nextPageToken = e.nextPageToken,
                                                   !.totalCount = e.totalCount]))))

GmailModify(c, e, emailId, add, del) ==
    Catch("gmail",
      Request(c, e, "gmail",
              [ReqId("messages.modify", emailId) EXCEPT !.add = add, !.del = del]))

GmailDeleteEmail(c, e, emailId) ==
    Catch("gmail", Request(c, e, "gmail", ReqId("messages.delete", emailId)))

GmailMarkAsRead(c, e, emailId) == GmailModify(c, e, emailId, {}, {"UNREAD"})

GmailMarkAsUnread(c, e, emailId) == GmailModify(c, e, emailId, {"UNREAD"}, {})

GmailReplyToEmail(c, e, a) ==
    Catch("gmail",
      Then(GmailGetEmail(c, e, a.id),
           LAMBDA o :
             Then(Request(o.c, e, "gmail",
                          [Req("messages.send") EXCEPT
                             !.subject = <<"Re: ">> \o o.val.items[1].subject,
                             !.threadId = o.val.items[1].threadId]),
                  LAMBDA r : Ok(r.c, Val("message",
                      <<SentMessage(e, <<"Re: ">> \o o.val.items[1].subject)>>)))))

\* the labels of the labels.list response as folders or labels
GmailLabelEntity(l) ==
    [NoEntity EXCEPT !.ref = l.id, !.name = l.name, !.color = l.color,
                     !.type = IF l.type = "system" THEN "system" ELSE "user"]

GmailListFolders(c, e) ==
    Catch("gmail",
      Then(Request(c, e, "gmail", Req("labels.list")),
           LAMBDA r :
             Ok(r.c, Val("folders",
                 [i \in 1..Len(SelectSeq(e.labels, LAMBDA l : l.type = "system")) |->
                    [GmailLabelEntity(SelectSeq(e.labels, LAMBDA l : l.type = "system")[i])
                       EXCEPT !.color = <<>>, !.type = ""]]))))

GmailGetFolder(c, e, folderId) ==
    Catch("gmail",
      Then(Request(c, e, "gmail", [Req("labels.get") EXCEPT !.target = folderId]),
           LAMBDA r : Ok(r.c, Val("folder",
               <<[NoEntity EXCEPT !.ref = folderId, !.name = folderId]>>))))

GmailCreateFolder(c, e, name) ==
    Catch("gmail",
      Then(Request(c, e, "gmail", [Req("labels.create") EXCEPT !.target = name]),
           LAMBDA r : Ok(r.c, Val("folder",
               <<[NoEntity EXCEPT !.ref = e.newRef, !.name = name]>>))))

GmailMoveToFolder(c, e, a) == GmailModify(c, e, a.id, {a.folderId}, {})

GmailListLabels(c, e) ==
    Catch("gmail",
      Then(Request(c, e, "gmail", Req("labels.list")),
           LAMBDA r : Ok(r.c, Val("labels",
               [i \in 1..Len(e.labels) |-> GmailLabelEntity(e.labels[i])]))))

GmailAddLabels(c, e, a) == GmailModify(c, e, a.id, a.labelIds, {})

GmailRemoveLabels(c, e, a) == GmailModify(c, e, a.id, {}, a.labelIds)

\* createLabel(name, color): the colour is converted only when given and
\* non-empty; the label returned carries the colour of the response
GmailCreateLabel(c, e, a) ==
    Let(IF Truthy(a.color) THEN convertToGmailColor(a.color.cs)
        ELSE GmailColor(<<>>, <<>>),
        LAMBDA gmailColor :
          Catch("gmail",
            Then(Request(c, e, "gmail",
                         [Req("labels.create") EXCEPT
                            !.target = a.name,
                            !.color = gmailColor.backgroundColor,
                            !.textColor = gmailColor.textColor]),
                 LAMBDA r : Ok(r.c, Val("label",
                     <<[NoEntity EXCEPT !.ref = e.newRef, !.name = a.name,
                                        !.color = gmailColor.backgroundColor,
                                        !.type = "user"]>>)))))

\* an archive that also marks the message read
GmailArchiveEmailMarkingRead(c, e, emailId) ==
    GmailModify(c, e, emailId, {}, {"INBOX", "UNREAD"})

\* archiveEmail: the removal of the INBOX label is all it asks for
GmailArchiveEmail(c, e, emailId) == GmailModify(c, e, emailId, {}, {"INBOX"})

GmailTrashEmail(c, e, emailId) ==
    Catch("gmail", Request(c, e, "gmail", ReqId("messages.trash", emailId)))

BatchOperations == {"delete", "markRead", "markUnread", "archive"}

\* the single-message call batchOperation starts for one id
GmailBatchCall(c, e, operation, emailId) ==
    CASE operation = "delete" -> GmailDeleteEmail(c, e, emailId)
      [] operation = "markRead" -> GmailMarkAsRead(c, e, emailId)
      [] operation = "markUnread" -> GmailMarkAsUnread(c, e, emailId)
      [] OTHER -> GmailArchiveEmail(c, e, emailId)

\* a map that stops starting calls once one has failed
RECURSIVE GmailBatchMapAborting(_, _, _, _, _)
GmailBatchMapAborting(c, e, operation, ids, acc) ==
    IF ids = <<>> \/ (\E i \in 1..Len(acc) : acc[i].st = "err") THEN acc
    ELSE Let(GmailBatchCall(c, e, operation, Head(ids)),
             LAMBDA r : GmailBatchMapAborting(r.c, e, operation, Tail(ids),
                                              Append(acc, r)))

\* emailIds.map(...): every call is started, in the order of the ids
RECURSIVE GmailBatchMap(_, _, _, _, _)
GmailBatchMap(c, e, operation, ids, acc) ==
    IF ids = <<>> THEN acc
    ELSE Let(GmailBatchCall(c, e, operation, Head(ids)),
             LAMBDA r : GmailBatchMap(r.c, e, operation, Tail(ids), Append(acc, r)))

GmailBatchOperation(c, e, a) ==
    Catch("gmail",
      IF a.operation \notin BatchOperations /\ a.ids # <<>>
      THEN ThrownError(c, "Unknown operation")
      ELSE AwaitAll(c, GmailBatchMap(c, e, a.operation, a.ids, <<>>), e.pick))

-----------------------------------------------------------------------------
(* MicrosoftProvider                                                       *)

\* convertGraphMessage on the message the backend returns for id
GraphMessage(e, id) ==
    [NoEntity EXCEPT !.id = id, !.subject = e.subject, !.threadId = e.threadId,
                     !.labels = e.categories,
                     !.isRead = Str(IF e.isRead THEN "true" ELSE "false")]

\* the representation sendEmail and replyToEmail return: no id, no thread
GraphSentMessage(subject) == [NoEntity EXCEPT !.subject = subject]

MicrosoftSendEmail(c, e, a) ==
    Catch("microsoft",
      Then(Request(c, e, "microsoft",
                   [Req("POST /me/sendMail") EXCEPT !.subject = a.options.subject]),
           LAMBDA r : Ok(r.c, Val("message", <<GraphSentMessage(a.options.subject)>>))))

\* the query string of listEmails
MicrosoftQuery(options) ==
    (IF options.maxResults # 0 THEN <<"$top">> ELSE <<>>)
        \o (IF options.query # "" THEN <<"$search", options.query>> ELSE <<>>)
        \o (IF options.unreadOnly THEN <<"$filter=isRead eq false">> ELSE <<>>)
        \o <<"$orderby=receivedDateTime desc">>

MicrosoftListEmails(c, e, a) ==
    Catch("microsoft",
      Then(Request(c, e, "microsoft",
                   [Req("GET /me/messages") EXCEPT
                      !.maxResults = a.list.maxResults,
                      !.q = MicrosoftQuery(a.list)]),
           LAMBDA r :
             Ok(r.c, [Val("list", [i \in 1..Len(e.listIds) |->
                                      GraphMessage(e, e.listIds[i])])
                        EXCEPT !.nextPageToken = e.nextPageToken,
                               !.totalCount = e.totalCount])))

MicrosoftGetEmail(c, e, emailId) ==
    Catch("microsoft",
      Then(Request(c, e, "microsoft", ReqId("GET /me/messages/{id}", emailId)),
           LAMBDA r : Ok(r.c, Val("message", <<GraphMessage(e, emailId)>>))))

MicrosoftDeleteEmail(c, e, emailId) ==
    Catch("microsoft",
      Request(c, e, "microsoft", ReqId("DELETE /me/messages/{id}", emailId)))

MicrosoftMarkAsRead(c, e, emailId) ==
    Catch("microsoft",
      Request(c, e, "microsoft",
              [ReqId("PATCH /me/messages/{id}", emailId) EXCEPT !.body = "isRead: true"]))

MicrosoftMarkAsUnread(c, e, emailId) ==
    Catch("microsoft",
      Request(c, e, "microsoft",
              [ReqId("PATCH /me/messages/{id}", emailId) EXCEPT !.body = "isRead: false"]))

\* replyToEmail: a full message for a reply with an HTML body or
\* attachments, a comment otherwise
MicrosoftReplyToEmail(c, e, a) ==
    Catch("microsoft",
      Then(Request(c, e, "microsoft",
                   [ReqId("POST /me/messages/{id}/reply", a.id) EXCEPT
                      !.body = IF a.options.hasAttachments \/ a.options.hasHtml
                               THEN "message" ELSE "comment"]),
           LAMBDA r : Ok(r.c, Val("message", <<GraphSentMessage(a.options.subject)>>))))

GraphFolderEntity(f) ==
    [NoEntity EXCEPT !.ref = f.id, !.name = f.name, !.parentId = f.parentId]

MicrosoftListFolders(c, e) ==
    Catch("microsoft",
      Then(Request(c, e, "microsoft", Req("GET /me/mailFolders")),
           LAMBDA r : Ok(r.c, Val("folders",
               [i \in 1..Len(e.folders) |-> GraphFolderEntity(e.folders[i])]))))

MicrosoftGetFolder(c, e, folderId) ==
    Catch("microsoft",
      Then(Request(c, e, "microsoft",
                   [Req("GET /me/mailFolders/{id}") EXCEPT !.target = folderId]),
           LAMBDA r : Ok(r.c, Val("folder",
               <<[NoEntity EXCEPT !.ref = folderId, !.name = folderId]>>))))

MicrosoftCreateFolder(c, e, a) ==
    Catch("microsoft",
      Then(Request(c, e, "microsoft",
                   [Req(IF a.parentId # "" THEN "POST /me/mailFolders/{id}/childFolders"
                        ELSE "POST /me/mailFolders")
                      EXCEPT !.target = a.parentId, !.body = a.name]),
           LAMBDA r : Ok(r.c, Val("folder",
               <<[NoEntity EXCEPT !.ref = e.newRef, !.name = a.name,
                                  !.parentId = a.parentId]>>))))

MicrosoftMoveToFolder(c, e, emailId, folderId) ==
    Catch("microsoft",
      Request(c, e, "microsoft",
              [ReqId("POST /me/messages/{id}/move", emailId) EXCEPT !.target = folderId]))

GraphCategoryEntity(k) ==
    [NoEntity EXCEPT !.ref = k.id, !.name = k.name, !.color = k.color,
                     !.type = IF k.type = "system" THEN "system" ELSE "user"]

MicrosoftListLabels(c, e) ==
    Catch("microsoft",
      Then(Request(c, e, "microsoft", Req("GET /me/outlook/masterCategories")),
           LAMBDA r : Ok(r.c, Val("labels",
               [i \in 1..Len(e.labels) |-> GraphCategoryEntity(e.labels[i])]))))

\* a resolution that keeps an id no category has as if it were a name
ResolveCategoryNamesKeepingIds(categories, labelIds) ==
    {categories[i].name :
        i \in {j \in 1..Len(categories) : categories[j].ref \in labelIds}}
      \cup {id \in labelIds : \A j \in 1..Len(categories) : categories[j].ref # id}

\* labelIds.map(id => categories.find(c => c.id === id)?.name).filter(Boolean)
ResolveCategoryNames(categories, labelIds) ==
    {categories[i].name :
        i \in {j \in 1..Len(categories) :
                 /\ categories[j].ref \in labelIds
                 /\ categories[j].name # ""
                 /\ \A k \in 1..(j - 1) : categories[k].ref # categories[j].ref}}

MicrosoftAddLabels(c, e, a) ==
    Catch("microsoft",
      Then(MicrosoftListLabels(c, e),
           LAMBDA l :
             Request(l.c, e, "microsoft",
                     [ReqId("PATCH /me/messages/{id}", a.id) EXCEPT
                        !.body = "categories",
                        !.categories = ResolveCategoryNames(l.val.items, a.labelIds)])))

MicrosoftRemoveLabels(c, e, a) ==
    Catch("microsoft",
      Then(MicrosoftGetEmail(c, e, a.id),
           LAMBDA m :
             Then(MicrosoftListLabels(m.c, e),
                  LAMBDA l :
                    Request(l.c, e, "microsoft",
                            [ReqId("PATCH /me/messages/{id}", a.id) EXCEPT
                               !.body = "categories",
                               !.categories =
                                  m.val.items[1].labels
                                    \ ResolveCategoryNames(l.val.items, a.labelIds)]))))

MicrosoftCreateLabel(c, e, a) ==
    Let(convertColorToPreset(a.color),
        LAMBDA presetColor :
          Catch("microsoft",
            Then(Request(c, e, "microsoft",
                         [Req("POST /me/outlook/masterCategories") EXCEPT
                            !.target = a.name, !.color = presetColor]),
                 LAMBDA r : Ok(r.c, Val("label",
                     <<[NoEntity EXCEPT !.ref = e.newRef, !.name = a.name,
                                        !.color = presetColor, !.type = "user"]>>)))))

\* folders.find(f => f.name === name): <<the folder>> or <<>>
FindFolder(folders, name) ==
    IF \E i \in 1..Len(folders) : folders[i].name = name
    THEN <<folders[CHOOSE i \in 1..Len(folders) :
                      /\ folders[i].name = name
                      /\ \A j \in 1..(i - 1) : folders[j].name # name]>>
    ELSE <<>>

MicrosoftArchiveEmail(c, e, emailId) ==
    Catch("microsoft",
      Then(MicrosoftListFolders(c, e),
           LAMBDA f :
             IF FindFolder(f.val.items, "Archive") # <<>>
             THEN MicrosoftMoveToFolder(f.c, e, emailId,
                                        FindFolder(f.val.items, "Archive")[1].ref)
             ELSE ThrownError(f.c, "Archive folder not found")))

MicrosoftTrashEmail(c, e, emailId) ==
    Catch("microsoft",
      Then(MicrosoftListFolders(c, e),
           LAMBDA f :
             IF FindFolder(f.val.items, "Deleted Items") # <<>>
             THEN MicrosoftMoveToFolder(f.c, e, emailId,
                                        FindFolder(f.val.items, "Deleted Items")[1].ref)
             ELSE MicrosoftDeleteEmail(f.c, e, emailId)))

MicrosoftBatchCall(c, e, operation, emailId) ==
    CASE operation = "delete" -> MicrosoftDeleteEmail(c, e, emailId)
      [] operation = "markRead" -> MicrosoftMarkAsRead(c, e, emailId)
      [] operation = "markUnread" -> MicrosoftMarkAsUnread(c, e, emailId)
      [] OTHER -> MicrosoftArchiveEmail(c, e, emailId)

RECURSIVE MicrosoftBatchMap(_, _, _, _, _)
MicrosoftBatchMap(c, e, operation, ids, acc) ==
    IF ids = <<>> THEN acc
    ELSE Let(MicrosoftBatchCall(c, e, operation, Head(ids)),
             LAMBDA r : MicrosoftBatchMap(r.c, e, operation, Tail(ids), Append(acc, r)))

MicrosoftBatchOperation(c, e, a) ==
    Catch("microsoft",
      IF a.operation \notin BatchOperations /\ a.ids # <<>>
      THEN ThrownError(c, "Unknown operation")
      ELSE AwaitAll(c, MicrosoftBatchMap(c, e, a.operation, a.ids, <<>>), e.pick))

-----------------------------------------------------------------------------
(* ImapProvider                                                            *)

\* connect(): nothing when connected; else the session is asked to
\* connect, 'ready' sets connected, 'error' rejects with the classified error
ImapConnect(c, e) ==
    IF c.connected THEN Ok(c, NoVal)
    ELSE Then(CallbackRequest(c, e, "imap", Req("connect")),
              LAMBDA r : Ok([r.c EXCEPT !.connected = TRUE], NoVal))

\* openBox(boxName): the mailbox becomes the selected one
ImapOpenBox(c, e, boxName) ==
    Then(CallbackRequest(c, e, "imap", [Req("openBox") EXCEPT !.target = boxName]),
         LAMBDA r : Ok([r.c EXCEPT !.selected = boxName], NoVal))

\* await this.connect(); await this.openBox('INBOX')
ImapConnectAndOpen(c, e) ==
    Then(ImapConnect(c, e), LAMBDA r : ImapOpenBox(r.c, e, "INBOX"))

\* a request on message emailId: the uid is parseInt(emailId)
ImapReq(ep, emailId) ==
    [ReqId(ep, emailId) EXCEPT !.uid = ParseInt(Chars(emailId))]

\* An operation of the shape
\*   try { await first; return new Promise(rest) } catch { normalizeError }
\* : a failure of first is caught and classified again, a rejection of the
\* returned promise is not.
ImapTry(first, Rest(_)) == Then(Catch("imap", first), Rest)

ImapSendEmail(c, e, subject) ==
    Catch("imap",
      Then(Request(c, e, "imap", [Req("smtp.sendMail") EXCEPT !.subject = subject]),
           LAMBDA r : Ok(r.c, Val("message",
               <<[NoEntity EXCEPT !.id = e.newId, !.subject = subject]>>))))

\* buildSearchCriteria
ImapBuildSearchCriteria(options) ==
    IF options.unreadOnly THEN <<"UNSEEN">>
    ELSE <<"ALL">> \o (IF options.query # "" THEN <<"SUBJECT", options.query>> ELSE <<>>)

\* convertParsedMail(parsed, id)
ImapMessage(e, id) ==
    [NoEntity EXCEPT !.id = id, !.subject = e.subject, !.isRead = Str("false")]

\* a slice that keeps every uid
TakeAll(q, n) == q

\* uids.slice(0, n)
Take(q, n) == SubSeq(q, 1, IF n < Len(q) THEN n ELSE Len(q))

\* seqno.toString() for a sequence number below 100
NumberChars(n) ==
    IF n < 10 THEN <<DecDigits[n + 1]>>
    ELSE <<DecDigits[(n \div 10) + 1], DecDigits[(n % 10) + 1]>>

\* listEmails: search, then fetch of the first maxResults uids; the
\* promise resolves at the end of the fetch with the messages whose parse
\* has completed by then (the first e.parsedCount of them here)
ImapListEmails(c, e, a) ==
    ImapTry(ImapConnectAndOpen(c, e),
      LAMBDA o :
        Then(CallbackRequest(o.c, e, "imap",
                             [Req("search") EXCEPT !.q = ImapBuildSearchCriteria(a.list)]),
             LAMBDA s :
               IF e.uids = <<>>
               THEN Ok(s.c, [Val("list", <<>>) EXCEPT !.totalCount = 0])
               ELSE Let(Take(e.uids, IF a.list.maxResults # 0
                                     THEN a.list.maxResults ELSE 100),
                        LAMBDA paginatedUids :
                          Then(CallbackRequest(s.c, e, "imap",
                                   [Req("fetch") EXCEPT
                                      !.maxResults = Len(paginatedUids)]),
                               LAMBDA f :
                                 Ok(f.c, [Val("list",
                                     [i \in 1..Len(Take(paginatedUids, e.parsedCount)) |->
                                        ImapMessage(e, NumberChars(paginatedUids[i]))])
                                     EXCEPT !.totalCount = Len(e.uids)])))))

\* getEmail: fetch of one uid; the promise settles only from the parse of
\* a fetched message or from a fetch error
ImapGetEmail(c, e, emailId) ==
    ImapTry(ImapConnectAndOpen(c, e),
      LAMBDA o :
        Then(CallbackRequest(o.c, e, "imap", ImapReq("fetch", emailId)),
             LAMBDA f :
               IF ~e.fetched THEN Hang(f.c)
               ELSE CASE e.parse = "ok" ->
                           Ok(f.c, Val("message", <<ImapMessage(e, emailId)>>))
                      [] e.parse = "error" ->
                           Catch("imap", ThrownError(f.c, "parse failed"))
                      [] OTHER -> Hang(f.c)))

ImapAddFlags(c, e, emailId, flags) ==
    CallbackRequest(c, e, "imap", [ImapReq("addFlags", emailId) EXCEPT !.add = flags])

ImapDelFlags(c, e, emailId, flags) ==
    CallbackRequest(c, e, "imap", [ImapReq("delFlags", emailId) EXCEPT !.del = flags])

\* a deletion that issues expunge whether or not the flag was set
ImapDeleteEmailExpungingAnyway(c, e, emailId) ==
    ImapTry(ImapConnectAndOpen(c, e),
      LAMBDA o :
        Let(ImapAddFlags(o.c, e, emailId, {"\\Deleted"}),
            LAMBDA f : CallbackRequest(f.c, e, "imap", Req("expunge"))))

\* deleteEmail: the deletion flag, then expunge
ImapDeleteEmail(c, e, emailId) ==
    ImapTry(ImapConnectAndOpen(c, e),
      LAMBDA o :
        Then(ImapAddFlags(o.c, e, emailId, {"\\Deleted"}),
             LAMBDA f : CallbackRequest(f.c, e, "imap", Req("expunge"))))

ImapMarkAsRead(c, e, emailId) ==
    ImapTry(ImapConnectAndOpen(c, e),
      LAMBDA o : ImapAddFlags(o.c, e, emailId, {"\\Seen"}))

ImapMarkAsUnread(c, e, emailId) ==
    ImapTry(ImapConnectAndOpen(c, e),
      LAMBDA o : ImapDelFlags(o.c, e, emailId, {"\\Seen"}))

\* replyToEmail: the original is awaited inside the try; the promise of
\* sendEmail is returned without being awaited
ImapReplyToEmail(c, e, a) ==
    ImapTry(ImapGetEmail(c, e, a.id),
      LAMBDA o : ImapSendEmail(o.c, e, <<"Re: ">> \o o.val.items[1].subject))

ImapListFolders(c, e) ==
    ImapTry(ImapConnect(c, e),
      LAMBDA o :
        Then(CallbackRequest(o.c, e, "imap", Req("getBoxes")),
             LAMBDA r : Ok(r.c, Val("folders",
                 [i \in 1..Len(e.folders) |->
                    [NoEntity EXCEPT !.ref = e.folders[i].id,
                                     !.name = e.folders[i].name,
                                     !.parentId = e.folders[i].parentId]]))))

ImapGetFolder(c, e, folderId) ==
    Catch("imap",
      Then(ImapConnect(c, e),
           LAMBDA o :
             Then(ImapOpenBox(o.c, e, folderId),
                  LAMBDA r : Ok(r.c, Val("folder",
                      <<[NoEntity EXCEPT !.ref = folderId, !.name = folderId]>>)))))

ImapCreateFolder(c, e, name) ==
    ImapTry(ImapConnect(c, e),
      LAMBDA o :
        Then(CallbackRequest(o.c, e, "imap", [Req("addBox") EXCEPT !.target = name]),
             LAMBDA r : Ok(r.c, Val("folder",
                 <<[NoEntity EXCEPT !.ref = name, !.name = name]>>))))

ImapMoveToFolder(c, e, emailId, folderId) ==
    ImapTry(ImapConnectAndOpen(c, e),
      LAMBDA o :
        CallbackRequest(o.c, e, "imap",
                        [ImapReq("move", emailId) EXCEPT !.target = folderId]))

ImapFlagLabel(ref, name) ==
    [NoEntity EXCEPT !.ref = ref, !.name = name, !.type = "system"]

\* listLabels: the four protocol flags, whatever the backend holds
ImapListLabels(c) ==
    Ok(c, Val("labels",
        <<ImapFlagLabel("\\Seen", "Read"), ImapFlagLabel("\\Flagged", "Starred"),
          ImapFlagLabel("\\Draft", "Draft"), ImapFlagLabel("\\Answered", "Answered")>>))

ImapAddLabels(c, e, a) ==
    ImapTry(ImapConnectAndOpen(c, e),
      LAMBDA o : ImapAddFlags(o.c, e, a.id, a.labelIds))

ImapRemoveLabels(c, e, a) ==
    ImapTry(ImapConnectAndOpen(c, e),
      LAMBDA o : ImapDelFlags(o.c, e, a.id, a.labelIds))

\* createLabel with every argument switched: it connects first and
\* reports the unsupported capability as an unknown error
ImapCreateLabelConnecting(c, e) ==
    Then(ImapConnect(c, e),
         LAMBDA r : Rejected(r.c,
             SuperMailError("UNKNOWN_ERROR",
                 <<"IMAP does not support creating custom labels. Use folders instead.">>,
                 "imap", RawUndefined)))

\* createLabel(_name, _color): throws
ImapCreateLabel(c, e) ==
    Rejected(c,
        SuperMailError("OPERATION_FAILED",
            <<"IMAP does not support creating custom labels. Use folders instead.">>,
            "imap", RawUndefined))

\* archiveEmail: the move to 'Archive'; on any failure of it, the
\* deletion flag in INBOX, whose own failures are not classified again
ImapArchiveEmail(c, e, emailId) ==
    Else(ImapMoveToFolder(c, e, emailId, "Archive"),
         LAMBDA m : Then(ImapConnectAndOpen(m.c, e),
                         LAMBDA o : ImapAddFlags(o.c, e, emailId, {"\\Deleted"})))

\* trashEmail: the move to 'Trash'; on any failure of it, deleteEmail
ImapTrashEmail(c, e, emailId) ==
    Else(ImapMoveToFolder(c, e, emailId, "Trash"),
         LAMBDA m : ImapDeleteEmail(m.c, e, emailId))

ImapBatchCall(c, e, operation, emailId) ==
    CASE operation = "delete" -> ImapDeleteEmail(c, e, emailId)
      [] operation = "markRead" -> ImapMarkAsRead(c, e, emailId)
      [] operation = "markUnread" -> ImapMarkAsUnread(c, e, emailId)
      [] OTHER -> ImapArchiveEmail(c, e, emailId)

\* emailIds.map(...): every call runs up to its first await before the
\* next is started, so each reads this.connected as it was when
\* batchOperation was called; the requests of a call are logged together
RECURSIVE ImapBatchMap(_, _, _, _, _)
ImapBatchMap(c, e, operation, ids, acc) ==
    IF ids = <<>> THEN acc
    ELSE Let(ImapBatchCall(c, e, operation, Head(ids)),
             LAMBDA r : ImapBatchMap([r.c EXCEPT !.connected = c.connected], e,
                                     operation, Tail(ids), Append(acc, r)))

\* the context once the calls rs have settled: this.connected is set by
\* the 'ready' of any of them
ImapConnectedAfter(c, rs) ==
    [LastContext(c, rs) EXCEPT
        !.connected = c.connected \/ \E i \in 1..Len(rs) : rs[i].c.connected,
        !.started = Settled(rs)]

ImapBatchOperation(c, e, a) ==
    Catch("imap",
      IF a.operation \notin BatchOperations /\ a.ids # <<>>
      THEN ThrownError(c, "Unknown operation")
      ELSE Let(ImapBatchMap(c, e, a.operation, a.ids, <<>>),
               LAMBDA rs : PromiseAll(ImapConnectedAfter(c, rs), rs, e.pick)))

-----------------------------------------------------------------------------
(* The contract IEmailProvider as the holder of an adapter sees it: method *)
(* X of the adapter object p.  The call is recorded in the context, with   *)
(* the arguments it was given and what it settled with.                    *)

Called(method, a, r) ==
    Let(r, LAMBDA x :
        [x EXCEPT !.c.calls = Append(@, [method |-> method, args |-> a, st |-> x.st,
                                          err |-> x.err, val |-> x.val])])

ProviderSendEmail(p, c, e, a) ==
    Called("sendEmail", a,
           CASE p = "gmail" -> GmailSendEmail(c, e, a)
             [] p = "microsoft" -> MicrosoftSendEmail(c, e, a)
             [] OTHER -> ImapSendEmail(c, e, a.options.subject))

ProviderListEmails(p, c, e, a) ==
    Called("listEmails", a,
           CASE p = "gmail" -> GmailListEmails(c, e, a)
             [] p = "microsoft" -> MicrosoftListEmails(c, e, a)
             [] OTHER -> ImapListEmails(c, e, a))

ProviderGetEmail(p, c, e, a) ==
    Called("getEmail", a,
           CASE p = "gmail" -> GmailGetEmail(c, e, a.id)
             [] p = "microsoft" -> MicrosoftGetEmail(c, e, a.id)
             [] OTHER -> ImapGetEmail(c, e, a.id))

ProviderDeleteEmail(p, c, e, a) ==
    Called("deleteEmail", a,
           CASE p = "gmail" -> GmailDeleteEmail(c, e, a.id)
             [] p = "microsoft" -> MicrosoftDeleteEmail(c, e, a.id)
             [] OTHER -> ImapDeleteEmail(c, e, a.id))

ProviderMarkAsRead(p, c, e, a) ==
    Called("markAsRead", a,
           CASE p = "gmail" -> GmailMarkAsRead(c, e, a.id)
             [] p = "microsoft" -> MicrosoftMarkAsRead(c, e, a.id)
             [] OTHER -> ImapMarkAsRead(c, e, a.id))

ProviderMarkAsUnread(p, c, e, a) ==
    Called("markAsUnread", a,
           CASE p = "gmail" -> GmailMarkAsUnread(c, e, a.id)
             [] p = "microsoft" -> MicrosoftMarkAsUnread(c, e, a.id)
             [] OTHER -> ImapMarkAsUnread(c, e, a.id))

ProviderReplyToEmail(p, c, e, a) ==
    Called("replyToEmail", a,
           CASE p = "gmail" -> GmailReplyToEmail(c, e, a)
             [] p = "microsoft" -> MicrosoftReplyToEmail(c, e, a)
             [] OTHER -> ImapReplyToEmail(c, e, a))

ProviderListFolders(p, c, e, a) ==
    Called("listFolders", a,
           CASE p = "gmail" -> GmailListFolders(c, e)
             [] p = "microsoft" -> MicrosoftListFolders(c, e)
             [] OTHER -> ImapListFolders(c, e))

ProviderGetFolder(p, c, e, a) ==
    Called("getFolder", a,
           CASE p = "gmail" -> GmailGetFolder(c, e, a.folderId)
             [] p = "microsoft" -> MicrosoftGetFolder(c, e, a.folderId)
             [] OTHER -> ImapGetFolder(c, e, a.folderId))

ProviderCreateFolder(p, c, e, a) ==
    Called("createFolder", a,
           CASE p = "gmail" -> GmailCreateFolder(c, e, a.name)
             [] p = "microsoft" -> MicrosoftCreateFolder(c, e, a)
             [] OTHER -> ImapCreateFolder(c, e, a.name))

ProviderMoveToFolder(p, c, e, a) ==
    Called("moveToFolder", a,
           CASE p = "gmail" -> GmailMoveToFolder(c, e, a)
             [] p = "microsoft" -> MicrosoftMoveToFolder(c, e, a.id, a.folderId)
             [] OTHER -> ImapMoveToFolder(c, e, a.id, a.folderId))

ProviderListLabels(p, c, e, a) ==
    Called("listLabels", a,
           CASE p = "gmail" -> GmailListLabels(c, e)
             [] p = "microsoft" -> MicrosoftListLabels(c, e)
             [] OTHER -> ImapListLabels(c))

ProviderAddLabels(p, c, e, a) ==
    Called("addLabels", a,
           CASE p = "gmail" -> GmailAddLabels(c, e, a)
             [] p = "microsoft" -> MicrosoftAddLabels(c, e, a)
             [] OTHER -> ImapAddLabels(c, e, a))

ProviderRemoveLabels(p, c, e, a) ==
    Called("removeLabels", a,
           CASE p = "gmail" -> GmailRemoveLabels(c, e, a)
             [] p = "microsoft" -> MicrosoftRemoveLabels(c, e, a)
             [] OTHER -> ImapRemoveLabels(c, e, a))

ProviderCreateLabel(p, c, e, a) ==
    Called("createLabel", a,
           CASE p = "gmail" -> GmailCreateLabel(c, e, a)
             [] p = "microsoft" -> MicrosoftCreateLabel(c, e, a)
             [] OTHER -> ImapCreateLabel(c, e))

ProviderBatchOperation(p, c, e, a) ==
    Called("batchOperation", a,
           CASE p = "gmail" -> GmailBatchOperation(c, e, a)
             [] p = "microsoft" -> MicrosoftBatchOperation(c, e, a)
             [] OTHER -> ImapBatchOperation(c, e, a))

ProviderArchiveEmail(p, c, e, a) ==
    Called("archiveEmail", a,
           CASE p = "gmail" -> GmailArchiveEmail(c, e, a.id)
             [] p = "microsoft" -> MicrosoftArchiveEmail(c, e, a.id)
             [] OTHER -> ImapArchiveEmail(c, e, a.id))

ProviderTrashEmail(p, c, e, a) ==
    Called("trashEmail", a,
           CASE p = "gmail" -> GmailTrashEmail(c, e, a.id)
             [] p = "microsoft" -> MicrosoftTrashEmail(c, e, a.id)
             [] OTHER -> ImapTrashEmail(c, e, a.id))

-----------------------------------------------------------------------------
(* SuperMail, the Facade                                                   *)

\* createProvider(config): the adapter for config.type, or the Error thrown
createProvider(type) ==
    CASE type = "gmail" -> [NoFacade EXCEPT !.state = "ready", !.type = type,
                                            !.provider = "gmail"]
      [] type = "microsoft" -> [NoFacade EXCEPT !.state = "ready", !.type = type,
                                                !.provider = "microsoft"]
      [] OTHER -> [NoFacade EXCEPT
                     !.state = "failed", !.type = type,
                     !.err = Unclassified("Error",
                                 <<"Unsupported provider type: ", type>>,
                                 PlainError("Unsupported provider type"))]

\* The methods of SuperMail; p is this.provider.
SuperMailSendEmail(p, c, e, a) == ProviderSendEmail(p, c, e, a)

SuperMailListEmails(p, c, e, a) == ProviderListEmails(p, c, e, a)

SuperMailGetEmail(p, c, e, a) == ProviderGetEmail(p, c, e, a)

SuperMailDeleteEmail(p, c, e, a) == ProviderDeleteEmail(p, c, e, a)

SuperMailMarkAsRead(p, c, e, a) == ProviderMarkAsRead(p, c, e, a)

\* markAsUnread forwarding to the provider's markAsRead
SuperMailMarkAsUnreadSwapped(p, c, e, a) == ProviderMarkAsRead(p, c, e, a)

SuperMailMarkAsUnread(p, c, e, a) == ProviderMarkAsUnread(p, c, e, a)

SuperMailReplyToEmail(p, c, e, a) == ProviderReplyToEmail(p, c, e, a)

SuperMailListFolders(p, c, e, a) == ProviderListFolders(p, c, e, a)

SuperMailGetFolder(p, c, e, a) == ProviderGetFolder(p, c, e, a)

SuperMailCreateFolder(p, c, e, a) == ProviderCreateFolder(p, c, e, a)

SuperMailMoveToFolder(p, c, e, a) == ProviderMoveToFolder(p, c, e, a)

SuperMailListLabels(p, c, e, a) == ProviderListLabels(p, c, e, a)

SuperMailAddLabels(p, c, e, a) == ProviderAddLabels(p, c, e, a)

SuperMailRemoveLabels(p, c, e, a) == ProviderRemoveLabels(p, c, e, a)

SuperMailCreateLabel(p, c, e, a) == ProviderCreateLabel(p, c, e, a)

SuperMailBatchOperation(p, c, e, a) == ProviderBatchOperation(p, c, e, a)

SuperMailArchiveEmail(p, c, e, a) == ProviderArchiveEmail(p, c, e, a)

SuperMailTrashEmail(p, c, e, a) == ProviderTrashEmail(p, c, e, a)

-----------------------------------------------------------------------------
(* Spec: a caller constructs a SuperMail, which holds a GmailProvider or a *)
(* MicrosoftProvider, or constructs an ImapProvider itself (no SuperMail   *)
(* can hold one), and calls the operations of what it constructed.         *)
(* Calls are serialized: one settles (or is given up) before the next.     *)

MaxFaults == 1      \* requests of one call the backend may fail
MaxRequests == 4    \* the requests of a call that may be failed: the first ones
MaxBatch == 2       \* ids in one batchOperation

FaultStatuses == {401, 0}

\* the sets of at most k faults <<n, status>>, no two on the same request
RECURSIVE FaultSetsUpTo(_)
FaultSetsUpTo(k) ==
    IF k = 0 THEN {{}}
    ELSE LET S == FaultSetsUpTo(k - 1)
         IN  S \cup {F \cup {<<n, st>>} :
                       F \in S,
                       n \in 1..MaxRequests,
                       st \in FaultStatuses}

FaultSets ==
    {F \in FaultSetsUpTo(MaxFaults) :
        \A f \in F, g \in F : f[1] = g[1] => f = g}

ConfigTypes == {"gmail", "microsoft", "imap", "yahoo"}
EmailIds == {<<"1">>, <<"x">>}
FolderIds == {"INBOX", "Archive"}
LabelIdSets == {{}, {"L1"}, {"L1", "L3"}}
LabelNames == {"Work"}
ColorArgs ==
    {Undef, Chars(<<>>), Chars(Hex6("f", "f", "0", "0", "0", "0")),
     Chars(Hex6("F", "F", "8", "8", "0", "0")),
     Chars(Hex6("1", "2", "3", "4", "5", "6")),
     Chars(Hex6("g", "g", "g", "g", "g", "g")), Chars(<<"r", "e", "d">>),
     Chars(Preset(3)), Chars(Preset(99)), Chars(ConstructorName)}
SendOptions ==
    {[subject |-> <<"S">>, hasHtml |-> h, hasAttachments |-> h] : h \in BOOLEAN}
ListOptions ==
    {NoList, [NoList EXCEPT !.maxResults = 1],
     [NoList EXCEPT !.unreadOnly = TRUE, !.query = "foo"],
     [NoList EXCEPT !.pageToken = "t2", !.query = "foo"]}

\* the sequences of at most n ids
RECURSIVE IdSeqs(_)
IdSeqs(n) ==
    IF n = 0 THEN {<<>>}
    ELSE IdSeqs(n - 1) \cup {Append(q, i) : q \in {p \in IdSeqs(n - 1) : Len(p) = n - 1},
                                            i \in EmailIds}

BackendLabel(id, name, type) == [id |-> id, name |-> name, color |-> <<>>, type |-> type]
BackendFolder(id, name) == [id |-> id, name |-> name, parentId |-> ""]

LabelLists ==
    {<<>>, <<BackendLabel("INBOX", "INBOX", "system"), BackendLabel("L1", "Work", "user")>>}
FolderLists ==
    {<<BackendFolder("f1", "Inbox")>>,
     <<BackendFolder("f1", "Inbox"), BackendFolder("f2", "Archive"),
       BackendFolder("f3", "Deleted Items")>>}

FaultEnvs == {[NoEnv EXCEPT !.faults = F] : F \in FaultSets}
MessageEnvs ==
    FaultEnvs \cup
    {[NoEnv EXCEPT !.subject = s, !.fetched = f, !.parse = p] :
        s \in {<<"S">>, <<"Re: ", "S">>},
        f \in BOOLEAN, p \in {"ok", "error", "empty"}}
ListEnvs ==
    {[e EXCEPT !.listIds = d.listIds, !.nextPageToken = d.token,
               !.totalCount = Len(d.listIds), !.uids = d.uids,
               !.parsedCount = d.parsed] :
        e \in FaultEnvs,
        d \in {[listIds |-> <<>>, token |-> "", uids |-> <<>>, parsed |-> 0],
               [listIds |-> <<<<"1">>>>, token |-> "t2", uids |-> <<1, 2>>, parsed |-> 2],
               [listIds |-> <<<<"1">>, <<"x">>>>, token |-> "", uids |-> <<1, 2>>,
                parsed |-> 1]}}
FolderEnvs == {[e EXCEPT !.folders = f] : e \in FaultEnvs, f \in FolderLists}
LabelEnvs == {[e EXCEPT !.labels = l] : e \in FaultEnvs, l \in LabelLists}
\* a batch: the order in which failed calls reject matters when two fail
BatchEnvs ==
    {[NoEnv EXCEPT !.folders = f] : f \in FolderLists} \cup
    UNION {{[e EXCEPT !.folders = <<BackendFolder("f2", "Archive")>>, !.pick = k] :
               k \in {n \in 1..MaxFaults : n = 1 \/ n <= Cardinality(e.faults)}} :
           e \in FaultEnvs}

Init ==
    /\ MainIdle
    /\ NormIdle
    /\ ColorIdle
    /\ BoxIdle
    /\ RaceIdle
    /\ LabelIdle
    /\ AddrIdle

\* new SuperMail(config)
Construct ==
    /\ facade.state = "none"
    /\ \E type \in ConfigTypes : facade' = createProvider(type)
    /\ UNCHANGED <<connected, selected, last, normVars, colorVars, boxVars, raceVars, labelVars, addrVars>>

\* new ImapProvider(config): the caller holds the adapter, and no facade
ConstructImap ==
    /\ facade.state = "none"
    /\ facade' = [NoFacade EXCEPT !.state = "bypassed", !.type = "imap",
                                  !.provider = "imap"]
    /\ connected' = FALSE
    /\ selected' = ""
    /\ UNCHANGED <<last, normVars, colorVars, boxVars, raceVars, labelVars, addrVars>>

\* One call of operation op with arguments a, against environment e, up to
\* the point where its promise settles or is known never to settle; r is
\* what the call does from the context given to it.
Invoke(op, a, e, r) ==
    /\ last = NoCall
    /\ facade.state \in {"ready", "bypassed"}
    /\ \E x \in {r} :
         /\ \A f \in e.faults : f[1] <= Len(x.c.reqs)
         /\ last' = [via |-> IF facade.state = "ready" THEN "facade" ELSE "direct",
                     adapter |-> facade.provider, op |-> op, args |-> a,
                     calls |-> x.c.calls, faults |-> e.faults, env |-> e,
                     reqs |-> x.c.reqs,
                     st |-> x.st, err |-> x.err, val |-> x.val,
                     before |-> [connected |-> connected, selected |-> selected],
                     started |-> x.c.started]
         /\ connected' = x.c.connected
         /\ selected' = x.c.selected
    /\ UNCHANGED <<facade, normVars, colorVars, boxVars, raceVars, labelVars, addrVars>>

\* the context of a call: no request issued, no method called yet
Start ==
    [reqs |-> <<>>, calls |-> <<>>, connected |-> connected, selected |-> selected,
     started |-> <<>>]

SendEmail ==
    \E o \in SendOptions, e \in FaultEnvs :
        Invoke("sendEmail", [NoArgs EXCEPT !.options = o], e,
               IF facade.state = "ready"
               THEN SuperMailSendEmail(facade.provider, Start, e, [NoArgs EXCEPT !.options = o])
               ELSE ProviderSendEmail(facade.provider, Start, e, [NoArgs EXCEPT !.options = o]))

ListEmails ==
    \E l \in ListOptions, e \in ListEnvs :
        Invoke("listEmails", [NoArgs EXCEPT !.list = l], e,
               IF facade.state = "ready"
               THEN SuperMailListEmails(facade.provider, Start, e, [NoArgs EXCEPT !.list = l])
               ELSE ProviderListEmails(facade.provider, Start, e, [NoArgs EXCEPT !.list = l]))

GetEmail ==
    \E id \in EmailIds, e \in MessageEnvs :
        Invoke("getEmail", [NoArgs EXCEPT !.id = id], e,
               IF facade.state = "ready"
               THEN SuperMailGetEmail(facade.provider, Start, e, [NoArgs EXCEPT !.id = id])
               ELSE ProviderGetEmail(facade.provider, Start, e, [NoArgs EXCEPT !.id = id]))

DeleteEmail ==
    \E id \in EmailIds, e \in FaultEnvs :
        Invoke("deleteEmail", [NoArgs EXCEPT !.id = id], e,
               IF facade.state = "ready"
               THEN SuperMailDeleteEmail(facade.provider, Start, e, [NoArgs EXCEPT !.id = id])
               ELSE ProviderDeleteEmail(facade.provider, Start, e, [NoArgs EXCEPT !.id = id]))

MarkAsRead ==
    \E id \in EmailIds, e \in FaultEnvs :
        Invoke("markAsRead", [NoArgs EXCEPT !.id = id], e,
               IF facade.state = "ready"
               THEN SuperMailMarkAsRead(facade.provider, Start, e, [NoArgs EXCEPT !.id = id])
               ELSE ProviderMarkAsRead(facade.provider, Start, e, [NoArgs EXCEPT !.id = id]))

MarkAsUnread ==
    \E id \in EmailIds, e \in FaultEnvs :
        Invoke("markAsUnread", [NoArgs EXCEPT !.id = id], e,
               IF facade.state = "ready"
               THEN SuperMailMarkAsUnread(facade.provider, Start, e, [NoArgs EXCEPT !.id = id])
               ELSE ProviderMarkAsUnread(facade.provider, Start, e, [NoArgs EXCEPT !.id = id]))

ReplyToEmail ==
    \E id \in EmailIds, o \in SendOptions, e \in MessageEnvs :
        Invoke("replyToEmail", [NoArgs EXCEPT !.id = id, !.options = o], e,
               IF facade.state = "ready"
               THEN SuperMailReplyToEmail(facade.provider, Start, e, [NoArgs EXCEPT !.id = id, !.options = o])
               ELSE ProviderReplyToEmail(facade.provider, Start, e, [NoArgs EXCEPT !.id = id, !.options = o]))

ListFolders ==
    \E e \in FolderEnvs : Invoke("listFolders", NoArgs, e,
               IF facade.state = "ready"
               THEN SuperMailListFolders(facade.provider, Start, e, NoArgs)
               ELSE ProviderListFolders(facade.provider, Start, e, NoArgs))

GetFolder ==
    \E f \in FolderIds, e \in FaultEnvs :
        Invoke("getFolder", [NoArgs EXCEPT !.folderId = f], e,
               IF facade.state = "ready"
               THEN SuperMailGetFolder(facade.provider, Start, e, [NoArgs EXCEPT !.folderId = f])
               ELSE ProviderGetFolder(facade.provider, Start, e, [NoArgs EXCEPT !.folderId = f]))

CreateFolder ==
    \E n \in LabelNames, p \in {"", "f1"}, e \in FaultEnvs :
        Invoke("createFolder", [NoArgs EXCEPT !.name = n, !.parentId = p], e,
               IF facade.state = "ready"
               THEN SuperMailCreateFolder(facade.provider, Start, e, [NoArgs EXCEPT !.name = n, !.parentId = p])
               ELSE ProviderCreateFolder(facade.provider, Start, e, [NoArgs EXCEPT !.name = n, !.parentId = p]))

MoveToFolder ==
    \E id \in EmailIds, f \in FolderIds, e \in FaultEnvs :
        Invoke("moveToFolder", [NoArgs EXCEPT !.id = id, !.folderId = f], e,
               IF facade.state = "ready"
               THEN SuperMailMoveToFolder(facade.provider, Start, e, [NoArgs EXCEPT !.id = id, !.folderId = f])
               ELSE ProviderMoveToFolder(facade.provider, Start, e, [NoArgs EXCEPT !.id = id, !.folderId = f]))

ListLabels ==
    \E e \in LabelEnvs : Invoke("listLabels", NoArgs, e,
               IF facade.state = "ready"
               THEN SuperMailListLabels(facade.provider, Start, e, NoArgs)
               ELSE ProviderListLabels(facade.provider, Start, e, NoArgs))

AddLabels ==
    \E id \in EmailIds, ls \in LabelIdSets, e \in LabelEnvs :
        Invoke("addLabels", [NoArgs EXCEPT !.id = id, !.labelIds = ls], e,
               IF facade.state = "ready"
               THEN SuperMailAddLabels(facade.provider, Start, e, [NoArgs EXCEPT !.id = id, !.labelIds = ls])
               ELSE ProviderAddLabels(facade.provider, Start, e, [NoArgs EXCEPT !.id = id, !.labelIds = ls]))

RemoveLabels ==
    \E id \in EmailIds, ls \in LabelIdSets, e \in LabelEnvs :
        Invoke("removeLabels", [NoArgs EXCEPT !.id = id, !.labelIds = ls], e,
               IF facade.state = "ready"
               THEN SuperMailRemoveLabels(facade.provider, Start, e, [NoArgs EXCEPT !.id = id, !.labelIds = ls])
               ELSE ProviderRemoveLabels(facade.provider, Start, e, [NoArgs EXCEPT !.id = id, !.labelIds = ls]))

CreateLabel ==
    \E n \in LabelNames, col \in ColorArgs, e \in FaultEnvs :
        Invoke("createLabel", [NoArgs EXCEPT !.name = n, !.color = col], e,
               IF facade.state = "ready"
               THEN SuperMailCreateLabel(facade.provider, Start, e, [NoArgs EXCEPT !.name = n, !.color = col])
               ELSE ProviderCreateLabel(facade.provider, Start, e, [NoArgs EXCEPT !.name = n, !.color = col]))

BatchOperation ==
    \E ids \in IdSeqs(MaxBatch), o \in BatchOperations \cup {"move"}, e \in BatchEnvs :
      /\ o = "move" => e.faults = {}
      /\ Invoke("batchOperation", [NoArgs EXCEPT !.ids = ids, !.operation = o], e,
               IF facade.state = "ready"
               THEN SuperMailBatchOperation(facade.provider, Start, e, [NoArgs EXCEPT !.ids = ids, !.operation = o])
               ELSE ProviderBatchOperation(facade.provider, Start, e, [NoArgs EXCEPT !.ids = ids, !.operation = o]))

ArchiveEmail ==
    \E id \in EmailIds, e \in FolderEnvs :
        Invoke("archiveEmail", [NoArgs EXCEPT !.id = id], e,
               IF facade.state = "ready"
               THEN SuperMailArchiveEmail(facade.provider, Start, e, [NoArgs EXCEPT !.id = id])
               ELSE ProviderArchiveEmail(facade.provider, Start, e, [NoArgs EXCEPT !.id = id]))

TrashEmail ==
    \E id \in EmailIds, e \in FolderEnvs :
        Invoke("trashEmail", [NoArgs EXCEPT !.id = id], e,
               IF facade.state = "ready"
               THEN SuperMailTrashEmail(facade.provider, Start, e, [NoArgs EXCEPT !.id = id])
               ELSE ProviderTrashEmail(facade.provider, Start, e, [NoArgs EXCEPT !.id = id]))

\* the caller has read the outcome of the call and goes on
Continue ==
    /\ last # NoCall
    /\ last' = NoCall
    /\ UNCHANGED <<facade, connected, selected, normVars, colorVars, boxVars, raceVars, labelVars, addrVars>>

Next ==
    \/ Construct
    \/ ConstructImap
    \/ SendEmail \/ ListEmails \/ GetEmail \/ DeleteEmail
    \/ MarkAsRead \/ MarkAsUnread \/ ReplyToEmail
    \/ ListFolders \/ GetFolder \/ CreateFolder \/ MoveToFolder
    \/ ListLabels \/ AddLabels \/ RemoveLabels \/ CreateLabel
    \/ BatchOperation \/ ArchiveEmail \/ TrashEmail
    \/ Continue

Spec == Init /\ [][Next]_vars

-----------------------------------------------------------------------------
(* Specification SpecMailbox: one adapter against a backend that keeps its *)
(* messages from one call to the next.  The caller constructs an adapter   *)
(* and makes serialized calls of batchOperation, archiveEmail,            *)
(* deleteEmail and getEmail on the messages the mailbox holds; every       *)
(* request an operation issues and the backend does not fail takes effect  *)
(* on what is stored, and getEmail is answered from what is stored.        *)

\* a message as the backend holds it: the Gmail label ids, the Graph
\* categories and isRead, the IMAP flags, and the folder it lies in
StoredMessage(labelIds) ==
    [labels |-> labelIds, categories |-> labelIds \ {"INBOX", "UNREAD"},
     isRead |-> "UNREAD" \notin labelIds,
     flags |-> IF "UNREAD" \in labelIds THEN {} ELSE {"\\Seen"},
     folder |-> "INBOX"]

\* the ids of the two messages the mailbox holds at first
StoredIds == {<<"1">>, <<"2">>}

\* where a message lies that the backend has removed for good
Gone == ""

StoredLabelSets == {{"INBOX", "UNREAD", "L1"}, {"INBOX"}}

\* the backend fails no request of a call, or the first one
StoredFaults == {{}, {<<1, 401>>}}

\* the batches: at most MaxBatch ids, no id twice
StoredBatches ==
    {q \in UNION {[1..k -> StoredIds] : k \in 0..MaxBatch} :
        \A i \in 1..Len(q), j \in 1..Len(q) : q[i] = q[j] => i = j}

\* the effect of one request on the message m it addresses: the IMAP
\* commands act on the selected INBOX, by uid
BackendApply(m, req) ==
    CASE req.ep = "messages.modify" ->
           [m EXCEPT !.labels = (@ \ req.del) \cup req.add]
      [] req.ep = "PATCH /me/messages/{id}" /\ req.body = "isRead: true" ->
           [m EXCEPT !.isRead = TRUE]
      [] req.ep = "PATCH /me/messages/{id}" /\ req.body = "isRead: false" ->
           [m EXCEPT !.isRead = FALSE]
      [] req.ep = "POST /me/messages/{id}/move" -> [m EXCEPT !.folder = req.target]
      [] req.ep \in {"messages.delete", "DELETE /me/messages/{id}"} ->
           [m EXCEPT !.folder = Gone]
      [] req.ep = "addFlags" /\ req.uid.t = "number" /\ m.folder = "INBOX" ->
           [m EXCEPT !.flags = @ \cup req.add]
      [] req.ep = "delFlags" /\ req.uid.t = "number" /\ m.folder = "INBOX" ->
           [m EXCEPT !.flags = @ \ req.del]
      [] req.ep = "move" /\ req.uid.t = "number" /\ m.folder = "INBOX" ->
           [m EXCEPT !.folder = req.target]
      [] OTHER -> m

\* EXPUNGE names no message: it removes for good every message of the
\* selected INBOX that carries the \Deleted flag
Expunged(box) ==
    [id \in DOMAIN box |->
        IF box[id].folder = "INBOX" /\ "\\Deleted" \in box[id].flags
        THEN [box[id] EXCEPT !.folder = Gone]
        ELSE box[id]]

\* the messages after the requests reqs from the j-th on, those in faults
\* having been failed
RECURSIVE BackendAfter(_, _, _, _)
BackendAfter(box, reqs, faults, j) ==
    IF j > Len(reqs) THEN box
    ELSE BackendAfter(CASE \E f \in faults : f[1] = j -> box
                        [] reqs[j].ep = "expunge" -> Expunged(box)
                        [] reqs[j].id \notin DOMAIN box -> box
                        [] OTHER -> [box EXCEPT ![reqs[j].id] = BackendApply(@, reqs[j])],
                      reqs, faults, j + 1)

\* the messages the mailbox holds, in whatever folder
Held(box) == {id \in DOMAIN box : box[id].folder # Gone}

\* what the backend answers a call on message id with: a fetch finds the
\* message if its uid is a number and it lies in INBOX
BackendEnv(faults, id) ==
    [NoEnv EXCEPT !.faults = faults,
                  !.labelIds = mbox[id].labels,
                  !.categories = mbox[id].categories,
                  !.isRead = mbox[id].isRead,
                  !.folders = <<BackendFolder("f1", "Inbox"),
                                BackendFolder("f2", "Archive")>>,
                  !.fetched = ParseInt(Chars(id)).t = "number"
                                 /\ mbox[id].folder = "INBOX"]

\* the ids of a sequence
IdsOf(ids) == {ids[i] : i \in 1..Len(ids)}

NotArchived == [id |-> <<>>, times |-> "never", labels |-> {}]

\* new GmailProvider(config), new MicrosoftProvider(config) or
\* new ImapProvider(config), on a backend that holds two messages
StoredConstruct ==
    /\ mAdapter = ""
    /\ \E p \in {"gmail", "microsoft", "imap"}, l \in StoredLabelSets :
          /\ mAdapter' = p
          /\ mbox' = [id \in StoredIds |->
                        StoredMessage(IF id = <<"1">> THEN l ELSE {"INBOX", "UNREAD"})]
    /\ UNCHANGED <<mSession, mLast, mMarked, mArch, normVars, colorVars, mainVars, raceVars, labelVars, addrVars>>

BoxStart ==
    [reqs |-> <<>>, calls |-> <<>>, connected |-> mSession.connected,
     selected |-> mSession.selected, started |-> <<>>]

\* the ids known to be read: those of a batch 'markRead' that resolved,
\* until a batch marks them unread
MarkedAfter(op, operation, ids, st) ==
    CASE op = "batchOperation" /\ operation = "markRead" /\ st = "ok" ->
           mMarked \cup IdsOf(ids)
      [] op = "batchOperation" /\ operation = "markUnread" -> mMarked \ IdsOf(ids)
      [] OTHER -> mMarked

\* the message the last archiveEmail calls of a GmailProvider were made
\* on, with the labels it had before them, until a batch changes labels
ArchivedAfter(op, ids, st) ==
    CASE mAdapter # "gmail" -> mArch
      [] op = "archiveEmail" /\ st = "ok" ->
           IF mArch.id = ids[1]
           THEN [mArch EXCEPT !.times = "again"]
           ELSE [id |-> ids[1], times |-> "once", labels |-> mbox[ids[1]].labels]
      [] op = "batchOperation" -> NotArchived
      [] OTHER -> mArch

\* One call, up to the point where its promise settles or is known never
\* to settle: the requests the backend did not fail take effect
StoredCall(op, operation, ids, faults, r) ==
    /\ mAdapter # ""
    /\ \E x \in {r} :
         /\ \A f \in faults : f[1] <= Len(x.c.reqs)
         /\ mbox' = BackendAfter(mbox, x.c.reqs, faults, 1)
         /\ mSession' = [connected |-> x.c.connected, selected |-> x.c.selected]
         /\ mLast' = [op |-> op, operation |-> operation, ids |-> ids,
                      faults |-> faults, reqs |-> x.c.reqs, st |-> x.st,
                      val |-> x.val,
                      gone |-> Held(mbox) \ Held(BackendAfter(mbox, x.c.reqs, faults, 1))]
         /\ mMarked' = MarkedAfter(op, operation, ids, x.st)
         /\ mArch' = ArchivedAfter(op, ids, x.st)
    /\ UNCHANGED <<mAdapter, normVars, colorVars, mainVars, raceVars, labelVars, addrVars>>

StoredBatchOperation ==
    /\ mAdapter # ""
    /\ \E ids \in StoredBatches, o \in {"markRead", "markUnread"}, F \in StoredFaults :
        /\ IdsOf(ids) \subseteq Held(mbox)
        /\ StoredCall("batchOperation", o, ids, F,
                      ProviderBatchOperation(mAdapter, BoxStart,
                          BackendEnv(F, <<"1">>),
                          [NoArgs EXCEPT !.ids = ids, !.operation = o]))

StoredArchiveEmail ==
    /\ mAdapter # ""
    /\ \E id \in Held(mbox), F \in StoredFaults :
        StoredCall("archiveEmail", "", <<id>>, F,
                   ProviderArchiveEmail(mAdapter, BoxStart, BackendEnv(F, id),
                                        [NoArgs EXCEPT !.id = id]))

StoredDeleteEmail ==
    /\ mAdapter # ""
    /\ \E id \in Held(mbox), F \in StoredFaults :
        StoredCall("deleteEmail", "", <<id>>, F,
                   ProviderDeleteEmail(mAdapter, BoxStart, BackendEnv(F, id),
                                       [NoArgs EXCEPT !.id = id]))

StoredGetEmail ==
    /\ mAdapter # ""
    /\ \E id \in Held(mbox), F \in StoredFaults :
        StoredCall("getEmail", "", <<id>>, F,
                   ProviderGetEmail(mAdapter, BoxStart, BackendEnv(F, id),
                                    [NoArgs EXCEPT !.id = id]))

MailboxInit ==
    /\ MainIdle
    /\ NormIdle
    /\ ColorIdle
    /\ BoxIdle
    /\ RaceIdle
    /\ LabelIdle
    /\ AddrIdle

MailboxNext ==
    \/ StoredConstruct
    \/ StoredBatchOperation
    \/ StoredArchiveEmail
    \/ StoredDeleteEmail
    \/ StoredGetEmail

SpecMailbox == MailboxInit /\ [][MailboxNext]_vars

-----------------------------------------------------------------------------
(* Specification SpecOverlap: two callers of one ImapProvider that do not  *)
(* wait for each other.  A call runs in steps: it asks for the connection  *)
(* if the adapter is not connected, then for its mailbox, then for its     *)
(* commands one after the other.  The session serves the requests it was   *)
(* given in the order it was given them, one at a time, and the            *)
(* continuation of a call runs as soon as its request is answered.         *)

MaxCalls == 3       \* calls made in one behaviour of SpecOverlap

OverlapOps == {"getFolder", "deleteEmail", "markAsRead", "addLabels", "moveToFolder"}

\* the mailbox an operation opens: getFolder its argument, the others INBOX
BoxOf(op, folderId) == IF op = "getFolder" THEN folderId ELSE "INBOX"

\* the mailbox commands an operation issues once its mailbox is open
CommandsOf(op) ==
    CASE op = "deleteEmail" -> <<"addFlags", "expunge">>
      [] op = "markAsRead" -> <<"addFlags">>
      [] op = "addLabels" -> <<"addFlags">>
      [] op = "moveToFolder" -> <<"move">>
      [] OTHER -> <<>>

OpenBoxRequest(i, boxName) == [call |-> i, ep |-> "openBox", target |-> boxName]

\* a command acts on the mailbox that was given to the call
CommandBoxOfCall(current, own) == own

\* a command acts on the mailbox the session has selected when it is
\* served; the adapter passes a uid and no mailbox
CommandBox(current, own) == current

\* a caller starts an operation: connect() returns at once when connected
\* is set and the call goes on to openBox; otherwise it waits for 'ready'
OverlapCall(i) ==
    /\ rPc[i].pc = "idle"
    /\ rCalls < MaxCalls
    /\ rCalls' = rCalls + 1
    /\ \E op \in OverlapOps, folderId \in FolderIds :
         /\ op # "getFolder" => folderId = "INBOX"
         /\ IF rConnected
            THEN /\ rPc' = [rPc EXCEPT ![i] = [pc |-> "opening", op |-> op,
                                               box |-> BoxOf(op, folderId),
                                               cmds |-> CommandsOf(op)]]
                 /\ rQueue' = Append(rQueue, OpenBoxRequest(i, BoxOf(op, folderId)))
            ELSE /\ rPc' = [rPc EXCEPT ![i] = [pc |-> "connecting", op |-> op,
                                               box |-> BoxOf(op, folderId),
                                               cmds |-> CommandsOf(op)]]
                 /\ UNCHANGED rQueue
    /\ UNCHANGED <<rConnected, rSelected, rCmd, normVars, colorVars, mainVars, boxVars, labelVars, addrVars>>

\* the openBox requests of the calls in w, the call first registered first
RECURSIVE OpenAll(_, _)
OpenAll(w, first) ==
    <<OpenBoxRequest(first, rPc[first].box)>>
        \o (IF w \ {first} = {} THEN <<>>
            ELSE OpenAll(w \ {first}, CHOOSE j \in w \ {first} : TRUE))

\* 'ready': connected is set, and every call that waited for it asks for
\* its mailbox, in the order in which the calls were made
SessionReady ==
    /\ \E i \in OverlappingCalls : rPc[i].pc = "connecting"
    /\ rConnected' = TRUE
    /\ \E first \in {i \in OverlappingCalls : rPc[i].pc = "connecting"} :
         rQueue' = rQueue \o OpenAll({i \in OverlappingCalls : rPc[i].pc = "connecting"},
                                     first)
    /\ rPc' = [i \in OverlappingCalls |->
                 IF rPc[i].pc = "connecting" THEN [rPc[i] EXCEPT !.pc = "opening"]
                 ELSE rPc[i]]
    /\ UNCHANGED <<rSelected, rCmd, rCalls, normVars, colorVars, mainVars, boxVars, labelVars, addrVars>>

\* the call i after its request was answered: it issues its next command,
\* or settles when none is left
Continued(i) ==
    IF rPc[i].cmds = <<>> THEN NoActivation
    ELSE [rPc[i] EXCEPT !.pc = "commanding", !.cmds = Tail(@)]

\* the session serves its oldest request: openBox selects the mailbox, a
\* command acts on a mailbox; then the call that made the request goes on
SessionServe ==
    /\ rQueue # <<>>
    /\ \E h \in {Head(rQueue)} :
         /\ rPc' = [rPc EXCEPT ![h.call] = Continued(h.call)]
         /\ rQueue' = IF rPc[h.call].cmds = <<>> THEN Tail(rQueue)
                      ELSE Append(Tail(rQueue),
                                  [call |-> h.call, ep |-> Head(rPc[h.call].cmds),
                                   target |-> ""])
         /\ IF h.ep = "openBox"
            THEN /\ rSelected' = [box |-> h.target, by |-> h.call,
                                  op |-> rPc[h.call].op]
                 /\ UNCHANGED rCmd
            ELSE /\ rCmd' = [call |-> h.call, op |-> rPc[h.call].op, ep |-> h.ep,
                             box |-> CommandBox(rSelected.box, rPc[h.call].box),
                             selected |-> rSelected]
                 /\ UNCHANGED rSelected
    /\ UNCHANGED <<rConnected, rCalls, normVars, colorVars, mainVars, boxVars, labelVars, addrVars>>

OverlapInit ==
    /\ MainIdle
    /\ NormIdle
    /\ ColorIdle
    /\ BoxIdle
    /\ RaceIdle
    /\ LabelIdle
    /\ AddrIdle

OverlapNext ==
    \/ \E i \in OverlappingCalls : OverlapCall(i)
    \/ SessionReady
    \/ SessionServe

SpecOverlap == OverlapInit /\ [][OverlapNext]_vars

-----------------------------------------------------------------------------
(* Specification SpecLabels: two callers of one MicrosoftProvider change   *)
(* the labels of the same message without waiting for each other.  Each    *)
(* makes one call of addLabels or removeLabels, which runs in the steps of *)
(* its awaits: removeLabels reads the message, both list the categories,   *)
(* both end with the PATCH that sets the category list of the message.     *)

\* the categories the backend has: /me/outlook/masterCategories
MasterCategories ==
    <<[NoEntity EXCEPT !.ref = "L1", !.name = "Work"],
      [NoEntity EXCEPT !.ref = "L2", !.name = "Home"]>>

LabelChangeIds == {{}, {"L1"}, {"L2"}, {"L1", "L3"}}

\* addLabels(options) or removeLabels(options) is called: removeLabels
\* starts with getEmail, addLabels with listLabels
LabelsCall(i) ==
    /\ lbPc[i].pc = "idle"
    /\ \E op \in {"addLabels", "removeLabels"}, ids \in LabelChangeIds :
         lbPc' = [lbPc EXCEPT ![i] =
                    [NoLabelCall EXCEPT
                       !.pc = IF op = "removeLabels" THEN "getEmail" ELSE "listLabels",
                       !.op = op, !.ids = ids]]
    /\ UNCHANGED <<lbCats, normVars, colorVars, mainVars, boxVars, raceVars, addrVars>>

\* const message = await this.getEmail(...); message.labels || []
LabelsGetEmail(i) ==
    /\ lbPc[i].pc = "getEmail"
    /\ lbPc' = [lbPc EXCEPT ![i].pc = "listLabels", ![i].read = lbCats]
    /\ UNCHANGED <<lbCats, normVars, colorVars, mainVars, boxVars, raceVars, addrVars>>

\* const categories = await this.listLabels(); the ids are resolved to names
LabelsListLabels(i) ==
    /\ lbPc[i].pc = "listLabels"
    /\ lbPc' = [lbPc EXCEPT ![i].pc = "patch",
                            ![i].names = ResolveCategoryNames(MasterCategories,
                                                              lbPc[i].ids)]
    /\ UNCHANGED <<lbCats, normVars, colorVars, mainVars, boxVars, raceVars, addrVars>>

\* the category list the PATCH of a call sets: the resolved names
\* (addLabels), or what was read without them (removeLabels)
PatchedCategories(call) ==
    IF call.op = "removeLabels" THEN call.read \ call.names ELSE call.names

\* await this.client.api(...).patch({ categories }): the list is replaced
LabelsPatch(i) ==
    /\ lbPc[i].pc = "patch"
    /\ lbCats' = PatchedCategories(lbPc[i])
    /\ lbPc' = [lbPc EXCEPT ![i].pc = "done", ![i].before = lbCats,
                            ![i].wrote = PatchedCategories(lbPc[i])]
    /\ UNCHANGED <<normVars, colorVars, mainVars, boxVars, raceVars, addrVars>>

LabelsInit ==
    /\ lbCats \in SUBSET {"Work", "Home"}
    /\ lbPc = [i \in OverlappingCalls |-> NoLabelCall]
    /\ MainIdle
    /\ NormIdle
    /\ ColorIdle
    /\ BoxIdle
    /\ RaceIdle
    /\ AddrIdle

LabelsNext ==
    \E i \in OverlappingCalls :
        \/ LabelsCall(i)
        \/ LabelsGetEmail(i)
        \/ LabelsListLabels(i)
        \/ LabelsPatch(i)

SpecLabels == LabelsInit /\ [][LabelsNext]_vars

-----------------------------------------------------------------------------
(* Specification SpecAddress: the conversion of what the backend gives for *)
(* a sender (from) or for recipients (to) into EmailAddress values, on a   *)
(* bounded set of header texts and address objects.  An EmailAddress is    *)
(* [email, name], both sequences of characters.                            *)

MaxHeader == 4      \* characters of a From or To header

\* the text without the white space at its end, and at both ends
RECURSIVE TrimEnd(_)
TrimEnd(c) ==
    IF c # <<>> /\ c[Len(c)] \in WhiteSpace THEN TrimEnd(SubSeq(c, 1, Len(c) - 1))
    ELSE c

Trim(c) == TrimEnd(SkipSpace(c))

\* the first position from j on that holds no white space, 0 if none
RECURSIVE NextNonSpace(_, _)
NextNonSpace(c, j) ==
    IF j > Len(c) THEN 0
    ELSE IF c[j] \in WhiteSpace THEN NextNonSpace(c, j + 1)
    ELSE j

\* /^(.+?)\s*<(.+?)>$/ with the first group ending at i: white space, then
\* '<', then at least one character, then the '>' that ends the text
MatchesWithName(c, i) ==
    /\ c[Len(c)] = ">"
    /\ NextNonSpace(c, i + 1) # 0
    /\ c[NextNonSpace(c, i + 1)] = "<"
    /\ NextNonSpace(c, i + 1) + 1 <= Len(c) - 1

\* the end of the first group of the match: the least there is, 0 for no match
NameEnd(c) ==
    IF \E i \in 1..Len(c) : MatchesWithName(c, i)
    THEN CHOOSE i \in 1..Len(c) :
            MatchesWithName(c, i) /\ \A j \in 1..(i - 1) : ~MatchesWithName(c, j)
    ELSE 0

\* parseEmailAddress(addr): <<the address>>, or <<>> for undefined
parseEmailAddress(addr) ==
    IF addr = <<>> THEN <<>>
    ELSE IF NameEnd(addr) # 0
    THEN <<[name |-> Trim(SubSeq(addr, 1, NameEnd(addr))),
            email |-> Trim(SubSeq(addr, NextNonSpace(addr, NameEnd(addr) + 1) + 1,
                                  Len(addr) - 1))]>>
    ELSE <<[name |-> <<>>, email |-> Trim(addr)]>>

\* addrs.split(','): the pieces between the commas, from position i on
RECURSIVE SplitAtCommas(_, _)
SplitAtCommas(c, piece) ==
    IF c = <<>> THEN <<piece>>
    ELSE IF Head(c) = "," THEN <<piece>> \o SplitAtCommas(Tail(c), <<>>)
    ELSE SplitAtCommas(Tail(c), Append(piece, Head(c)))

RECURSIVE ParseEach(_)
ParseEach(pieces) ==
    IF pieces = <<>> THEN <<>>
    ELSE parseEmailAddress(Trim(Head(pieces))) \o ParseEach(Tail(pieces))

\* parseEmailAddresses(addrs): every piece parsed, the undefined ones left out
parseEmailAddresses(addrs) ==
    IF addrs = <<>> THEN <<>> ELSE ParseEach(SplitAtCommas(addrs, <<>>))

\* name: recipient.emailAddress?.name, the empty sequence for undefined
NameChars(v) == IF v.t = "string" THEN v.cs ELSE <<>>

\* convertFromGraphRecipient(recipient)
convertFromGraphRecipient(recipient) ==
    IF recipient.k = "none" THEN [name |-> <<>>, email |-> <<>>]
    ELSE [name |-> NameChars(recipient.name),
          email |-> JsOr(recipient.address, Chars(<<>>)).cs]

\* from of convertParsedMail: parsed.from?.value[0] ? {...} : undefined
convertParsedFrom(first) ==
    IF first.k = "none" THEN <<>>
    ELSE <<[name |-> NameChars(first.name),
            email |-> JsOr(first.address, Chars(<<>>)).cs]>>

HeaderChars == {"a", " ", "<", ">", ","}

\* the texts of at most n characters
RECURSIVE HeadersUpTo(_)
HeadersUpTo(n) ==
    IF n = 0 THEN {<<>>}
    ELSE HeadersUpTo(n - 1)
           \cup {Append(h, ch) : h \in {g \in HeadersUpTo(n - 1) : Len(g) = n - 1},
                                 ch \in HeaderChars}

HeaderInputs ==
    {[NoAddressInput EXCEPT !.k = "header", !.header = h] : h \in HeadersUpTo(MaxHeader)}

ObjectInputs ==
    {NoAddressInput}
      \cup {[NoAddressInput EXCEPT !.k = "object", !.address = ad, !.name = nm] :
               ad \in {Undef, Chars(<<>>), Chars(<<"a">>)},
               nm \in {Undef, Chars(<<"N">>)}}

AddressInit ==
    /\ aAdapter \in {"gmail", "microsoft", "imap"}
    /\ aIn \in IF aAdapter = "gmail" THEN HeaderInputs ELSE ObjectInputs
    /\ aOut = <<>>
    /\ aPc = "ready"
    /\ MainIdle
    /\ NormIdle
    /\ ColorIdle
    /\ BoxIdle
    /\ RaceIdle
    /\ LabelIdle

\* one conversion: out is the addresses it returns
Converted(adapter, field, out) ==
    /\ aPc = "ready"
    /\ aAdapter = adapter
    /\ aOut' = out
    /\ aPc' = field
    /\ UNCHANGED <<aAdapter, aIn, normVars, colorVars, mainVars, boxVars, raceVars, labelVars>>

\* from: this.parseEmailAddress(getHeader('from') ?? undefined)
GmailFrom == Converted("gmail", "from", parseEmailAddress(aIn.header))

\* to: this.parseEmailAddresses(getHeader('to') ?? undefined)
GmailTo == Converted("gmail", "to", parseEmailAddresses(aIn.header))

\* from: this.convertFromGraphRecipient(graphMsg.from), and each of to, cc
MicrosoftRecipient == Converted("microsoft", "from", <<convertFromGraphRecipient(aIn)>>)

\* from, and each of to and cc, of convertParsedMail
ImapAddress == Converted("imap", "from", convertParsedFrom(aIn))

AddressNext == GmailFrom \/ GmailTo \/ MicrosoftRecipient \/ ImapAddress

SpecAddress == AddressInit /\ [][AddressNext]_vars

-----------------------------------------------------------------------------
(* Claims on normalizeError, checked under SpecNorm                        *)

\* C2: for every backend tag, a too-many-requests (429) failure normalizes
\* to RATE_LIMIT_EXCEEDED; a retry-after header "5" gives retryAfter = 5 and
\* no retry header gives no retryAfter.
C2_RateLimitEveryTag ==
    (nPc = "done" /\ HasStatus(nTag, nRaw, 429)) =>
        /\ ~nOut.threw
        /\ nOut.err.code = "RATE_LIMIT_EXCEEDED"
        /\ RetryHeader(nRaw) = Chars(<<"5">>) => nOut.err.retryAfter = Num(5)
        /\ RetryHeader(nRaw) = Undef => nOut.err.retryAfter = Undef

\* C3: normalizeError never throws: for every raw failure (object, string,
\* null, undefined) and every tag it returns a classified error whose kind
\* is in the closed set.
C3_NeverThrows ==
    nPc = "done" =>
        /\ ~nOut.threw
        /\ nOut.err.classified
        /\ nOut.err.code \in ErrorCode

\* the kind the status table gives a status
StatusKind(status) ==
    CASE status = 401 -> "AUTH_FAILED"
      [] status = 403 -> "QUOTA_EXCEEDED"
      [] status = 404 -> "NOT_FOUND"
      [] OTHER -> "RATE_LIMIT_EXCEEDED"

TableStatuses == {401, 403, 404, 429}

\* C4: rules in order, first match wins: the status table, then
\* connectivity -> NETWORK_ERROR, then UNKNOWN_ERROR with the original
\* message; the result always carries the tag and the raw failure.
C4_RulesInOrder ==
    nPc = "done" =>
        /\ ~nOut.threw
        /\ nOut.err.provider = nTag
        /\ nOut.err.originalError = nRaw
        /\ \A st \in TableStatuses :
              HasStatus(nTag, nRaw, st) => nOut.err.code = StatusKind(st)
        /\ ((\A st \in TableStatuses : ~HasStatus(nTag, nRaw, st))
              /\ nRaw.statusCode = Undef /\ nRaw.respStatus = Undef
              /\ nRaw.bodyErrorCode = Undef) =>
              IF IsConnectivity(nRaw)
              THEN nOut.err.code = "NETWORK_ERROR"
              ELSE (nRaw.code \in {Undef, Num(500)}) =>
                     /\ nOut.err.code = "UNKNOWN_ERROR"
                     /\ Truthy(nRaw.message) =>
                           nOut.err.message = <<ToText(nRaw.message)>>

-----------------------------------------------------------------------------
(* Claims on the adapters and the facade, checked under Spec               *)

Recognized == {"gmail", "microsoft", "imap"}

\* C1: whenever a backend request made during an operation of any adapter
\* fails with an unauthorized (401) response, the operation fails and the
\* error the caller gets is a classified error of kind AUTH_FAILED.
C1_UnauthorizedIsAuthFailed ==
    (last # NoCall /\ \E f \in last.faults : f[2] = 401)
        => /\ last.st = "err"
           /\ last.err.classified
           /\ last.err.code = "AUTH_FAILED"

\* C5: constructing the facade with a configuration of type gmail,
\* microsoft or imap succeeds and the facade holds the adapter of that type.
C5_ConstructsMatchingAdapter ==
    (facade.state \in {"ready", "failed"} /\ facade.type \in Recognized)
        => /\ facade.state = "ready"
           /\ facade.provider = facade.type

\* C6: constructing the facade with a configuration of any other type fails
\* at construction with a classified error of kind OPERATION_FAILED whose
\* message names the type.
C6_UnrecognizedIsOperationFailed ==
    (facade.state \in {"ready", "failed"} /\ facade.type \notin Recognized)
        => /\ facade.state = "failed"
           /\ facade.err.classified
           /\ facade.err.code = "OPERATION_FAILED"
           /\ \E i \in 1..Len(facade.err.message) :
                  facade.err.message[i] = facade.type

\* a settled facade call made one same-named adapter call and settled as it did
Forwarded ==
    (last # NoCall /\ last.via = "facade")
        => /\ last.adapter = facade.provider
           /\ Len(last.calls) = 1
           /\ last.calls[1].method = last.op
           /\ last.calls[1].args = last.args
           /\ last.st = last.calls[1].st
           /\ last.err = last.calls[1].err
           /\ last.val = last.calls[1].val

\* C7: every call of a facade operation makes exactly one call of the
\* same-named operation of the facade's adapter, with the same arguments,
\* and settles as that call does, with its result or its error unchanged;
\* and once constructed, the facade's adapter never changes.
C7_FacadeForwards ==
    /\ []Forwarded
    /\ [][facade.state = "ready" => facade' = facade]_vars

\* a facade call that the adapter failed with a classified error
C7_Witness ==
    /\ last # NoCall
    /\ last.via = "facade"
    /\ last.op = "markAsUnread"
    /\ last.st = "err"
    /\ last.err.classified
    /\ last.err.code = "AUTH_FAILED"

\* C8: createLabel of the IMAP adapter always fails with a classified error
\* of kind OPERATION_FAILED, whether or not the adapter is connected, and
\* neither connects nor issues any backend command.
C8_ImapCreateLabelFails ==
    (last # NoCall /\ last.adapter = "imap" /\ last.op = "createLabel")
        => /\ last.st = "err"
           /\ last.err.classified
           /\ last.err.code = "OPERATION_FAILED"
           /\ last.reqs = <<>>
           /\ connected = last.before.connected
           /\ selected = last.before.selected

\* createLabel on a connected IMAP adapter, given a colour
C8_Witness ==
    /\ last # NoCall
    /\ last.adapter = "imap"
    /\ last.op = "createLabel"
    /\ last.before.connected
    /\ Truthy(last.args.color)
    /\ last.st = "err"

AdapterPalette(adapter) ==
    IF adapter = "gmail" THEN GmailPalette ELSE MicrosoftPalette

\* C9: createLabel of any of the three adapters, given any non-empty colour
\* string, does not fail unless a backend request fails, and the colour it
\* creates the label with, which the label it returns has, is a colour of
\* the adapter's palette.
C9_ColourInPalette ==
    (last # NoCall /\ last.op = "createLabel" /\ Truthy(last.args.color)
                   /\ last.faults = {})
        => /\ last.st = "ok"
           /\ Len(last.reqs) = 1
           /\ last.reqs[1].color \in AdapterPalette(last.adapter)
           /\ last.val.items[1].color = last.reqs[1].color

\* a batchOperation of a REST adapter that started its per-message calls
RestBatch ==
    /\ last # NoCall
    /\ last.op = "batchOperation"
    /\ last.adapter \in {"gmail", "microsoft"}
    /\ last.args.operation \in BatchOperations

\* C11: when a per-message call of batchOperation on the gmail or the
\* microsoft adapter fails with a classified error of kind K, the batch
\* fails and the error its caller gets has the kind of a failed call.
C11_BatchKeepsKind ==
    (RestBatch /\ \E i \in 1..Len(last.started) :
                     last.started[i].st = "err" /\ last.started[i].err.classified)
        => /\ last.st = "err"
           /\ \E i \in 1..Len(last.started) :
                  /\ last.started[i].st = "err"
                  /\ last.err.code = last.started[i].err.code

\* the requests on message id that the backend did not fail
Effects(id) ==
    {j \in 1..Len(last.reqs) :
        last.reqs[j].id = id /\ \A f \in last.faults : f[1] # j}

\* C13: batchOperation starts one single-message call for every id given,
\* whether or not an earlier one fails, and when the batch fails the calls
\* that succeeded are neither cancelled nor undone: for every message, the
\* requests on it that the backend carried out are those of its calls that
\* succeeded.
C13_BatchStartsAll ==
    RestBatch
        => /\ Len(last.started) = Len(last.args.ids)
           /\ \A id \in EmailIds :
                  Cardinality(Effects(id)) =
                    Cardinality({i \in 1..Len(last.args.ids) :
                                   last.args.ids[i] = id /\ last.started[i].st = "ok"})

\* a batch whose first call failed and whose second succeeded
C13_Witness ==
    /\ RestBatch
    /\ last.st = "err"
    /\ Len(last.args.ids) = 2
    /\ last.started[1].st = "err"
    /\ last.started[2].st = "ok"
    /\ Effects(last.args.ids[2]) # {}

\* a call of op on adapter that no backend failure disturbed
Undisturbed(adapter, op) ==
    /\ last # NoCall
    /\ last.adapter = adapter
    /\ last.op = op
    /\ last.faults = {}

\* C15: archiveEmail on the microsoft adapter, when the folder list has no
\* folder named "Archive", fails with a classified error of kind
\* OPERATION_FAILED, and no request moves or deletes the message.
C15_NoArchiveFolderFails ==
    (Undisturbed("microsoft", "archiveEmail")
       /\ \A i \in 1..Len(last.env.folders) : last.env.folders[i].name # "Archive")
        => /\ last.st = "err"
           /\ last.err.classified
           /\ last.err.code = "OPERATION_FAILED"
           /\ \A j \in 1..Len(last.reqs) : last.reqs[j].id = <<>>

\* the names of the backend's categories whose id is among ids
NamesOf(ids) ==
    {last.env.labels[i].name :
        i \in {j \in 1..Len(last.env.labels) : last.env.labels[j].id \in ids}}

\* the request that sets the categories of the message
LastRequest == last.reqs[Len(last.reqs)]

\* C16: addLabels and removeLabels of the microsoft adapter list the
\* categories, resolve each label id to the name of the category with that
\* id, and set the message's categories by name: to the resolved names
\* (addLabels) or to the message's categories without them (removeLabels);
\* an id no category has is left out and does not make the call fail.
C16_LabelIdsResolveToNames ==
    /\ Undisturbed("microsoft", "addLabels")
          => /\ last.st = "ok"
             /\ \E j \in 1..Len(last.reqs) :
                    last.reqs[j].ep = "GET /me/outlook/masterCategories"
             /\ LastRequest.id = last.args.id
             /\ LastRequest.categories = NamesOf(last.args.labelIds)
    /\ Undisturbed("microsoft", "removeLabels")
          => /\ last.st = "ok"
             /\ \E j \in 1..Len(last.reqs) :
                    last.reqs[j].ep = "GET /me/outlook/masterCategories"
             /\ LastRequest.id = last.args.id
             /\ LastRequest.categories =
                    last.env.categories \ NamesOf(last.args.labelIds)

\* addLabels given one id of a category and one id no category has
C16_Witness ==
    /\ Undisturbed("microsoft", "addLabels")
    /\ last.args.labelIds = {"L1", "L3"}
    /\ last.env.labels # <<>>
    /\ last.st = "ok"
    /\ LastRequest.categories = {"Work"}

\* C17: replyToEmail of the gmail adapter sends the reply with the thread
\* id of the original message, and with the original subject prefixed with
\* "Re: " unless it already starts with "Re: ".
C17_ReplySubjectPrefixedOnce ==
    Undisturbed("gmail", "replyToEmail")
        => /\ last.st = "ok"
           /\ LastRequest.ep = "messages.send"
           /\ LastRequest.threadId = last.env.threadId
           /\ LastRequest.subject =
                 IF Head(last.env.subject) = "Re: " THEN last.env.subject
                 ELSE <<"Re: ">> \o last.env.subject

\* C12: on every adapter, once a batch 'markRead' over some ids has
\* resolved, a later getEmail of any of those ids (none of them marked
\* unread in between) returns the message with isRead = true.
C12_BatchMarkReadIsRead ==
    (mLast.op = "getEmail" /\ mLast.st = "ok" /\ mLast.ids[1] \in mMarked)
        => mLast.val.items[1].isRead = Str("true")

\* C14: on Gmail, archiveEmail asks for the removal of the inbox label and
\* nothing else; after it the stored labels, and the labels getEmail
\* returns, are those the message had before less INBOX; and an
\* archiveEmail the backend does not fail resolves, the first as well as a
\* repeated one.
C14_GmailArchiveRemovesInboxOnly ==
    mAdapter = "gmail"
        => /\ mArch.times # "never"
                 => mbox[mArch.id].labels = mArch.labels \ {"INBOX"}
           /\ (mLast.op = "getEmail" /\ mLast.st = "ok" /\ mArch.id = mLast.ids[1])
                 => mLast.val.items[1].labels = mArch.labels \ {"INBOX"}
           /\ mLast.op = "archiveEmail"
                 => /\ Len(mLast.reqs) = 1
                    /\ mLast.reqs[1].ep = "messages.modify"
                    /\ mLast.reqs[1].id = mLast.ids[1]
                    /\ mLast.reqs[1].del = {"INBOX"}
                    /\ mLast.reqs[1].add = {}
                    /\ mLast.faults = {} => mLast.st = "ok"

\* a message with INBOX and other labels was archived twice, and getEmail
\* then returned it with the other labels only
C14_Witness ==
    /\ mAdapter = "gmail"
    /\ mLast.op = "getEmail"
    /\ mLast.st = "ok"
    /\ mArch.id = mLast.ids[1]
    /\ mArch.times = "again"
    /\ "INBOX" \in mArch.labels
    /\ mLast.val.items[1].labels = {"UNREAD", "L1"}

\* C19: on the IMAP adapter nothing ties a mailbox command to the
\* mailbox its own call opened: every command acts on whatever mailbox the
\* session has selected when it is served, and when that is not INBOX it
\* was selected by a getFolder of the other, overlapping call.
C19_CommandsActOnSelectedMailbox ==
    rCmd # NoCommand
        => /\ rCmd.box = rCmd.selected.box
           /\ rCmd.box # "INBOX"
                 => /\ rCmd.selected.by # rCmd.call
                    /\ rCmd.selected.op = "getFolder"

\* a message command of one call was served while the folder opened by an
\* overlapping getFolder, not INBOX, was selected
C19_Witness ==
    /\ rCmd.op \in {"deleteEmail", "markAsRead", "addLabels", "moveToFolder"}
    /\ rCmd.ep \in {"addFlags", "move", "expunge"}
    /\ rCmd.box = "Archive"
    /\ rCmd.selected.by # rCmd.call
    /\ rCmd.selected.op = "getFolder"

MailboxCommands == {"search", "fetch", "addFlags", "delFlags", "move", "expunge"}

\* the backend failed the j-th request of the call
Failed(j) == \E f \in last.faults : f[1] = j

\* C18: in every call of a serialized sequence on the IMAP adapter, a
\* mailbox command (search, fetch, add/remove flags, move, expunge) is
\* issued only once the session is ready and after the call itself has
\* selected INBOX; a call on a connected adapter issues no connect request;
\* and no call connects the session more than once.
C18_LazyConnectAndSelect ==
    (last # NoCall /\ last.adapter = "imap")
        => /\ \A j \in 1..Len(last.reqs) :
                  last.reqs[j].ep \in MailboxCommands
                    => /\ \/ last.before.connected
                          \/ \E i \in 1..(j - 1) :
                                last.reqs[i].ep = "connect" /\ ~Failed(i)
                       /\ \E i \in 1..(j - 1) :
                             /\ last.reqs[i].ep = "openBox"
                             /\ last.reqs[i].target = "INBOX"
                             /\ ~Failed(i)
                             /\ \A k \in (i + 1)..(j - 1) :
                                   last.reqs[k].ep # "openBox"
           /\ last.before.connected
                 => \A j \in 1..Len(last.reqs) : last.reqs[j].ep # "connect"
           /\ Cardinality({j \in 1..Len(last.reqs) :
                              last.reqs[j].ep = "connect" /\ ~Failed(j)}) <= 1

\* the number of uids listEmails may fetch
PageSize == IF last.args.list.maxResults # 0 THEN last.args.list.maxResults ELSE 100

\* C20: listEmails of the IMAP adapter never returns a nextPageToken; when
\* it resolves, totalCount is the number of uids the search matched, and
\* the fetch it issued asked for the first maxResults (default 100) of them
\* at most.
C20_ImapPaginatesClientSide ==
    (last # NoCall /\ last.adapter = "imap" /\ last.op = "listEmails")
        => /\ last.val.nextPageToken = ""
           /\ \A j \in 1..Len(last.reqs) :
                  last.reqs[j].ep = "fetch"
                    => last.reqs[j].maxResults =
                         (IF Len(last.env.uids) < PageSize
                          THEN Len(last.env.uids) ELSE PageSize)
           /\ last.st = "ok"
                 => /\ last.val.totalCount = Len(last.env.uids)
                    /\ Len(last.val.items) <= PageSize

\* a search that matched two messages, listed with maxResults = 1
C20_Witness ==
    /\ Undisturbed("imap", "listEmails")
    /\ last.st = "ok"
    /\ last.args.list.maxResults = 1
    /\ Len(last.env.uids) = 2
    /\ last.val.totalCount = 2
    /\ \E j \in 1..Len(last.reqs) :
           last.reqs[j].ep = "fetch" /\ last.reqs[j].maxResults = 1

\* C21: on the Gmail and Microsoft adapters, a listEmails call that is
\* given a pageToken hands that token to the backend as it is, in the
\* request that lists the messages.
C21_PageTokenRoundTrips ==
    (last # NoCall /\ last.adapter \in {"gmail", "microsoft"}
        /\ last.op = "listEmails" /\ last.args.list.pageToken # "")
        => /\ Len(last.reqs) >= 1
           /\ last.reqs[1].pageToken = last.args.list.pageToken

\* C23: archiveEmail of the IMAP adapter sets the deletion flag only after
\* it has attempted the move into "Archive" and that move has failed; it
\* never issues expunge; and when the move succeeded it sets no flag.
C23_ArchiveFallsBackOnMissingMailbox ==
    (last # NoCall /\ last.adapter = "imap" /\ last.op = "archiveEmail")
        => /\ \A j \in 1..Len(last.reqs) :
                  last.reqs[j].ep = "addFlags"
                    => \E i \in 1..(j - 1) :
                          /\ last.reqs[i].ep = "move"
                          /\ last.reqs[i].target = "Archive"
                          /\ Failed(i)
           /\ \A j \in 1..Len(last.reqs) : last.reqs[j].ep # "expunge"
           /\ (\E i \in 1..Len(last.reqs) : last.reqs[i].ep = "move" /\ ~Failed(i))
                 => \A j \in 1..Len(last.reqs) : last.reqs[j].ep # "addFlags"

\* C24: deleteEmail of the IMAP adapter sets the deletion flag and issues
\* expunge right after it, and only once the flag step has succeeded; it
\* resolves exactly when both steps succeeded; and when either step fails
\* the call is rejected with a classified error.
C24_DeleteFlagsThenExpunges ==
    (last # NoCall /\ last.adapter = "imap" /\ last.op = "deleteEmail")
        => /\ \A j \in 1..Len(last.reqs) :
                  last.reqs[j].ep = "expunge"
                    => /\ j > 1
                       /\ last.reqs[j - 1].ep = "addFlags"
                       /\ last.reqs[j - 1].add = {"\\Deleted"}
                       /\ ~Failed(j - 1)
           /\ last.st = "ok"
                 <=> /\ \E i \in 1..Len(last.reqs) :
                           last.reqs[i].ep = "addFlags" /\ ~Failed(i)
                     /\ \E j \in 1..Len(last.reqs) :
                           last.reqs[j].ep = "expunge" /\ ~Failed(j)
           /\ (\E j \in 1..Len(last.reqs) :
                  last.reqs[j].ep \in {"addFlags", "expunge"} /\ Failed(j))
                 => /\ last.st = "err"
                    /\ last.err.classified

\* a deleteEmail whose flag step succeeded and whose expunge failed
C24_Witness ==
    /\ last # NoCall
    /\ last.adapter = "imap"
    /\ last.op = "deleteEmail"
    /\ \E j \in 2..Len(last.reqs) :
          /\ last.reqs[j].ep = "expunge"
          /\ Failed(j)
          /\ last.reqs[j - 1].ep = "addFlags"
    /\ last.st = "err"
    /\ last.err.classified

\* C28: every getEmail of the IMAP adapter settles: it resolves with a
\* message or is rejected with a classified error, whatever the fetch
\* delivers and whatever the parse yields.
C28_GetEmailSettles ==
    (last # NoCall /\ last.adapter = "imap" /\ last.op = "getEmail")
        => \/ last.st = "ok" /\ Len(last.val.items) = 1
           \/ last.st = "err" /\ last.err.classified

\* C29: when listEmails of the IMAP adapter resolves after a search that
\* matched k messages, all of which parse, its response holds
\* min(k, maxResults) messages, however many of the parses had completed
\* when the fetch ended.
C29_ListWaitsForParses ==
    (last # NoCall /\ last.adapter = "imap" /\ last.op = "listEmails"
        /\ last.st = "ok")
        => Len(last.val.items) =
              (IF Len(last.env.uids) < PageSize THEN Len(last.env.uids) ELSE PageSize)

\* C30: a batchOperation of the IMAP adapter that no request fails asks
\* the session to connect once at most, and not at all when the adapter
\* was connected before.
C30_BatchConnectsOnce ==
    (last # NoCall /\ last.adapter = "imap" /\ last.op = "batchOperation"
        /\ last.faults = {})
        => /\ Cardinality({j \in 1..Len(last.reqs) : last.reqs[j].ep = "connect"}) <= 1
           /\ last.before.connected
                 => \A j \in 1..Len(last.reqs) : last.reqs[j].ep # "connect"

\* C26: addLabels of the microsoft adapter only adds: the category list it
\* sets on the message is the list the message had united with the names
\* the given ids resolve to, so that no category the message had is lost.
C26_AddLabelsKeepsCategories ==
    Undisturbed("microsoft", "addLabels")
        => /\ last.st = "ok"
           /\ LastRequest.ep = "PATCH /me/messages/{id}"
           /\ LastRequest.categories =
                  last.env.categories \cup NamesOf(last.args.labelIds)

\* C27: a removeLabels of the microsoft adapter that has finished has
\* left the message with the categories it had when the change was
\* written, less those the ids resolve to, whatever another label change
\* on the same message did between its read and its write: no change made
\* in between is lost.
C27_NoLostLabelUpdate ==
    \A i \in OverlappingCalls :
        (lbPc[i].pc = "done" /\ lbPc[i].op = "removeLabels")
            => lbPc[i].wrote = lbPc[i].before \ lbPc[i].names

\* C22: every EmailAddress an adapter builds for a sender or a recipient
\* has a non-empty email, whatever the backend gave.
C22_AddressHasEmail ==
    aPc \in {"from", "to"} => \A i \in 1..Len(aOut) : aOut[i].email # <<>>

\* C25: on the IMAP adapter a deleteEmail(id) that succeeds removes from
\* the mailbox message id and no other: every other message the mailbox
\* held before the call it still holds after it, those that an earlier
\* archiveEmail flagged \Deleted in its fallback included.
C25_DeleteRemovesOnlyItsMessage ==
    (mAdapter = "imap" /\ mLast.op = "deleteEmail" /\ mLast.st = "ok")
        => mLast.gone \subseteq {mLast.ids[1]}

-----------------------------------------------------------------------------
(* Claims on the colour conversions, checked under SpecColor               *)

\* '#' followed by six hexadecimal digits of either case
WellFormed(c) ==
    /\ Len(c) = 7
    /\ c[1] = "#"
    /\ \A i \in 2..7 : DigitValue(LowerChar(c[i]), HexDigits) >= 0

ColorTable(adapter) ==
    IF adapter = "gmail"
    THEN [i \in 1..Len(colorPalette) |->
             [key |-> colorPalette[i].key, val |-> colorPalette[i].val.backgroundColor]]
    ELSE colorMap

\* squared distance from colour string c to the i-th key of the table
KeyDistance(adapter, c, i) ==
    colorDistance(hexToRgb(ToLowerCase(c)), hexToRgb(ColorTable(adapter)[i].key))

\* the RGB value of a palette member: the colour itself on the
\* label-organized backend, the colour of the preset on the folder-native one
MemberRgb(adapter, member) ==
    IF adapter = "gmail" THEN hexToRgb(member)
    ELSE hexToRgb(colorMap[CHOOSE i \in 1..Len(colorMap) : colorMap[i].val = member].key)

Palette(adapter) == IF adapter = "gmail" THEN GmailPalette ELSE MicrosoftPalette

NearestInPalette(adapter, c, member) ==
    /\ member \in Palette(adapter)
    /\ \A q \in Palette(adapter) :
          colorDistance(hexToRgb(ToLowerCase(c)), MemberRgb(adapter, q))
            >= colorDistance(hexToRgb(ToLowerCase(c)), MemberRgb(adapter, member))

\* C10 (as stated): for every well-formed '#rrggbb' colour the entry chosen
\* by either conversion is a palette member at minimal Euclidean RGB
\* distance from the input among all palette members.
C10_NearestPaletteMember ==
    (cPc = "done" /\ WellFormed(cIn)) => NearestInPalette(cAdapter, cIn, cOut.color)

\* C10 (amended): for every well-formed '#rrggbb' colour the entry chosen is
\* the palette member the adapter's table assigns to a table key at minimal
\* Euclidean RGB distance from the input among all table keys; on the
\* folder-native adapter, whose keys are the palette's own colours, it is a
\* palette member nearest to the input.
C10_NearestTableKey ==
    (cPc = "done" /\ WellFormed(cIn)) =>
        /\ cOut.color \in Palette(cAdapter)
        /\ \E i \in 1..Len(ColorTable(cAdapter)) :
              /\ ColorTable(cAdapter)[i].val = cOut.color
              /\ \A j \in 1..Len(ColorTable(cAdapter)) :
                    KeyDistance(cAdapter, cIn, j) >= KeyDistance(cAdapter, cIn, i)
        /\ cAdapter = "microsoft" => NearestInPalette(cAdapter, cIn, cOut.color)

\* C10 witness: a well-formed colour that is no table key has been
\* converted by the nearest-key search of each kind of table
C10_Witness ==
    /\ cPc = "done"
    /\ WellFormed(cIn)
    /\ ~HasKey(ColorTable(cAdapter), ToLowerCase(cIn))
    /\ cAdapter = "gmail"
    /\ cOut.color = GmailPeach
====
